---- MODULE Spec2Model ----
(***************************************************************************)
(* Server resource-lifecycle and observability core of sneaky-backend:     *)
(* ServerService (provisioning, start/stop, per-server metrics collector   *)
(* with bounded retention) and the routes that drive it; the deployment    *)
(* pipeline of routes/deployments.ts and the overview of                   *)
(* routes/monitoring.ts.                                                   *)
(*                                                                         *)
(* Every handler is async: it is split at its awaits.  A step of the model *)
(* is one store call taking effect together with the synchronous code that *)
(* the handler runs up to its next store call, except where that           *)
(* synchronous code touches the timer registry: there the store write and  *)
(* the continuation are separate steps, since other handlers can run       *)
(* between a write being committed and the awaiting handler resuming.      *)
(***************************************************************************)
EXTENDS Integers, Sequences, FiniteSets

\* ---------------------------------------------------------------- bounds

\* Server ids the store can hold.
ServerIds == {"srv1"}

\* Deployment ids (each deployment has its own name) the store can hold.
DeploymentIds == {"dep1"}

\* The last octet of a generated address ranges over 0..MaxOctet
\* (Math.floor(Math.random() * 255) in the source).
MaxOctet == 1

\* Collection ticks of one server that may be in flight at once in the
\* lifecycle specifications.
MaxTicksInFlight == 1

\* Rows a collector may insert in the specification of two servers, beyond
\* the K rows of a full store or into a store that is not full.
MaxFrameSamples == 1

\* Collection ticks of one server that may be in flight at once (a tick
\* outlasting the interval) in the retention specifications.
MaxOverlap == 2

\* Rows a collector may insert for one server in the lifecycle specification.
MaxSamples == 2

\* Rows the overview's findMany may answer.
MaxRecent == 1

\* The digit after the decimal point of a stored usage ranges over 0..MaxTenth.
MaxTenth == 1

\* Rows the collectors have stored when the overview of a long window is read.
MaxStored == 101

\* The instants of a day at which the usage is read or a server created.
DayParts == 2

\* Rows of one server stored when its metrics are read.
MaxBucketed == 3

\* The usages of a row read for the buckets are one of 1..MaxLevel levels.
MaxLevel == 2

\* The event counter io keeps is observed modulo this.
EmitMod == 2

\* Rows a collector may insert beyond K in the retention specifications.
Overrun == 2

\* ------------------------------------------------------------- constants

\* skip: 1000 of the retention query.
K == 1000

\* parseFloat(metric.cpuUsage.toString()) > 80
CpuThreshold == 80

\* parseFloat(metric.memoryUsage.toString()) > 85
MemoryThreshold == 85

\* parseFloat(metric.diskUsage.toString()) > 90
DiskThreshold == 90

\* .slice(0, 10)
MaxAlerts == 10

\* take: 100
TakeLimit == 100

\* 60 * 60 * 1000 milliseconds, counted in seconds.
Hour == 3600

\* METRICS_INTERVAL, 30000 milliseconds, counted in seconds.
MetricsInterval == 30

\* 60 * 1000 milliseconds, counted in seconds.
Minute == 60

\* query('hours').optional().isInt({min: 1, max: 168})
MinHours == 1

MaxHours == 168

\* parseInt(req.query.hours) || 24
DefaultHours == 24

Placeholder == <<0, 0, 0, 0>>

NoAddr == <<>>

NoTimer == 0

NoStatus == "-"

NoRow == 0

VARIABLES
  server,            \* prisma.server rows: id -> [status, ipAddress]; status "none": no row
  provision,         \* the provisioning task of each server: [pc, ipAddress]
  startReq,          \* POST /:id/start in flight per server: its position
  stopReq,           \* POST /:id/stop in flight per server: its position
  metricsIntervals,  \* ServerService.metricsIntervals: id -> timer handle
  liveTimers,        \* setInterval timers not yet cleared: [id, serverId]
  ticks,             \* tick callbacks in flight: id -> slot -> [pc, old]
  metrics,           \* prisma.serverMetric rows of each server, in insertion order
  inserted,          \* rows ever created per server (the row's id and timestamp)
  emitted,           \* the last message sent through io, and io's event counter
  response,          \* the last HTTP response sent
  deployment,        \* prisma.deployment rows: id -> [status, buildLogs, serverId]
  deployReq,         \* POST /api/deployments in flight per deployment: [pc, serverId]
  stages,            \* the two setTimeout tasks of each deployment: [first, second]
  redeployReq,       \* POST /:id/redeploy in flight per deployment: its position
  overview,          \* GET /overview: the rows it last read and the alerts it answered
  serverMetrics,     \* GET /servers/:id/metrics: its query, the rows stored and its answer
  billing,           \* GET /usage: the rows it reads, the time and its answer
  instance,          \* prisma.server rows: id -> [provider, instanceType, monthlyPrice]
  lookup             \* the last call of getInstanceSpecs: its arguments and its outcome

vars == <<server, provision, startReq, stopReq, metricsIntervals, liveTimers,
          ticks, metrics, inserted, emitted, response,
          deployment, deployReq, stages, redeployReq, overview, serverMetrics,
          billing, instance, lookup>>

\* The state of routes/deployments.ts.
deployVars == <<deployment, deployReq, stages, redeployReq>>

\* The state of the routes outside routes/servers.ts and ServerService.
\* The state of the routes that only read.
reportVars == <<overview, serverMetrics, billing>>

\* The columns of a server row that the catalog fills, and the catalog's
\* last lookup.
catalogVars == <<instance, lookup>>

routeVars == <<deployVars, reportVars, catalogVars>>

lifecycleVars == <<server, provision, startReq, stopReq, response>>

timerVars == <<metricsIntervals, liveTimers>>

storeVars == <<metrics, inserted>>

\* ---------------------------------------------------------------- helpers

Slots == 1..MaxTicksInFlight

OverlapSlots == 1..MaxOverlap

IdleTick == [pc |-> "idle", old |-> {}]

Exists(s) == server[s].status # "none"

\* io.to(room).emit(event, payload)
Message(room, event, status, ip, row) ==
  [room |-> room, event |-> event, serverId |-> room, status |-> status,
   ipAddress |-> ip, row |-> row]

Emit(msg) == [last |-> msg, seq |-> (emitted.seq + 1) % EmitMod]

NoResponse == [route |-> "-", serverId |-> "-", code |-> 0]

Respond(route, s, code) == [route |-> route, serverId |-> s, code |-> code]

\* setInterval returns a handle distinct from every handle still referenced.
NewTimer(live, old) ==
  CHOOSE n \in 1..(Cardinality(live) + 2) :
    /\ n # old
    /\ \A t \in live : t.id # n
    /\ \A m \in 1..(n - 1) : m = old \/ \E t \in live : t.id = m

\* clearInterval(interval)
ClearInterval(live, handle) == {t \in live : t.id # handle}

\* stopMetricsCollection clearing every interval of the registry.
StopMetricsCollectionAll(mi, live, s) ==
  IF mi[s] # NoTimer
    THEN [intervals |-> [x \in DOMAIN mi |-> NoTimer], live |-> {}]
    ELSE [intervals |-> mi, live |-> live]

\* stopMetricsCollection(serverId): the registry and the timers it leaves.
StopMetricsCollection(mi, live, s) ==
  IF mi[s] # NoTimer
    THEN [intervals |-> [mi EXCEPT ![s] = NoTimer],
          live |-> ClearInterval(live, mi[s])]
    ELSE [intervals |-> mi, live |-> live]

\* startMetricsCollection without clearing the existing interval first.
StartMetricsCollectionNoClear(mi, live, s) ==
  LET t == NewTimer(live, mi[s])
  IN [intervals |-> [mi EXCEPT ![s] = t],
      live |-> live \cup {[id |-> t, serverId |-> s]}]

\* startMetricsCollection(serverId): the registry and the timers it leaves.
StartMetricsCollection(mi, live, s) ==
  LET cleared == StopMetricsCollection(mi, live, s)
      t == NewTimer(live, mi[s])
  IN [intervals |-> [cleared.intervals EXCEPT ![s] = t],
      live |-> cleared.live \cup {[id |-> t, serverId |-> s]}]

\* `10.${...}.${...}.${...}`: the addresses the provisioning task can generate.
GeneratedAddresses == {<<10, 0, 0, o>> : o \in 0..MaxOctet}

\* ------------------------------------------------------------------- Init

NoLogs == <<>>

NoDeployment == [status |-> "none", buildLogs |-> NoLogs, serverId |-> "-"]

\* One entry of the catalog; the price is a decimal with one digit after
\* the point.
Specs(provider, instanceType, cpu, memory, storage, bandwidth, whole, tenth) ==
  [provider |-> provider, instanceType |-> instanceType, cpu |-> cpu, memory |-> memory,
   storage |-> storage, bandwidth |-> bandwidth,
   monthlyPrice |-> [whole |-> whole, tenth |-> tenth]]

\* ServerService.instanceSpecs
InstanceSpecs ==
  {Specs("aws", "t3.micro", 2, 1, 20, 100, 8, 5),
   Specs("aws", "t3.small", 2, 2, 20, 100, 17, 0),
   Specs("aws", "t3.medium", 2, 4, 30, 200, 34, 0),
   Specs("aws", "t3.large", 2, 8, 50, 300, 68, 0),
   Specs("aws", "m5.large", 2, 8, 50, 500, 88, 0),
   Specs("aws", "m5.xlarge", 4, 16, 100, 750, 176, 0),
   Specs("digitalocean", "s-1vcpu-1gb", 1, 1, 25, 1000, 6, 0),
   Specs("digitalocean", "s-1vcpu-2gb", 1, 2, 50, 2000, 12, 0),
   Specs("digitalocean", "s-2vcpu-2gb", 2, 2, 60, 3000, 18, 0),
   Specs("digitalocean", "s-2vcpu-4gb", 2, 4, 80, 4000, 24, 0),
   Specs("digitalocean", "s-4vcpu-8gb", 4, 8, 160, 5000, 48, 0),
   Specs("gcp", "e2-micro", 2, 1, 20, 100, 7, 0),
   Specs("gcp", "e2-small", 2, 2, 20, 200, 14, 0),
   Specs("gcp", "e2-medium", 2, 4, 30, 300, 28, 0),
   Specs("gcp", "e2-standard-2", 2, 8, 50, 500, 56, 0),
   Specs("gcp", "e2-standard-4", 4, 16, 100, 750, 112, 0),
   Specs("azure", "B1s", 1, 1, 30, 100, 8, 0),
   Specs("azure", "B1ms", 1, 2, 30, 200, 16, 0),
   Specs("azure", "B2s", 2, 4, 60, 400, 32, 0),
   Specs("azure", "B2ms", 2, 8, 60, 600, 64, 0),
   Specs("azure", "B4ms", 4, 16, 120, 1000, 128, 0)}

\* The properties every object literal inherits from Object.prototype.
ObjectPrototype ==
  {"constructor", "hasOwnProperty", "isPrototypeOf", "propertyIsEnumerable",
   "toLocaleString", "toString", "valueOf", "__proto__",
   "__defineGetter__", "__defineSetter__", "__lookupGetter__", "__lookupSetter__"}

\* object[key] for an object with the own keys given: its own property,
\* else the property of that name inherited from Object.prototype, else
\* undefined.
Property(keys, key) ==
  IF key \in keys THEN "own" ELSE IF key \in ObjectPrototype THEN "inherited" ELSE "undefined"

\* The entry of a pair of the catalog.
Entry(provider, instanceType) ==
  CHOOSE specs \in InstanceSpecs :
    specs.provider = provider /\ specs.instanceType = instanceType

\* ServerService.getInstanceSpecs: this.instanceSpecs[provider]?.[instanceType],
\* an error thrown when that is undefined and otherwise the value found.
\* The members inherited from Object.prototype are functions and objects,
\* which inherit its properties in turn.
GetInstanceSpecs(provider, instanceType) ==
  LET byProvider == Property({specs.provider : specs \in InstanceSpecs}, provider)
      types == IF byProvider = "own"
                 THEN {specs.instanceType : specs \in {x \in InstanceSpecs : x.provider = provider}}
                 ELSE {}
      found == IF byProvider = "undefined" THEN "undefined" ELSE Property(types, instanceType)
  IN IF found = "undefined" THEN [kind |-> "error"]
     ELSE IF found = "own" THEN [kind |-> "own", value |-> Entry(provider, instanceType)]
     ELSE [kind |-> "inherited", name |-> instanceType]

\* body('provider').isIn(['aws', 'gcp', 'azure', 'digitalocean'])
Providers == {"aws", "gcp", "azure", "digitalocean"}

\* The bodies of POST /: two pairs of the catalog, an instance type of
\* another provider, a name that only Object.prototype has, and a provider
\* the validation refuses.
Requests ==
  {[provider |-> "aws", instanceType |-> "t3.micro"],
   [provider |-> "digitalocean", instanceType |-> "s-2vcpu-2gb"],
   [provider |-> "aws", instanceType |-> "s-2vcpu-2gb"],
   [provider |-> "aws", instanceType |-> "constructor"],
   [provider |-> "linode", instanceType |-> "t3.micro"]}

\* prisma.server.create takes the row: bandwidth and monthlyPrice are
\* columns every server has, so data without them is refused.
CreateAccepts(specs) == specs.kind = "own"

\* The catalog columns of a row that does not exist.
NoInstance == [provider |-> "-", instanceType |-> "-", monthlyPrice |-> [whole |-> 0, tenth |-> 0]]

\* The catalog columns of a row created for the pair.
Created(provider, instanceType) ==
  [provider |-> provider, instanceType |-> instanceType,
   monthlyPrice |-> Entry(provider, instanceType).monthlyPrice]

NoLookup == [provider |-> "-", instanceType |-> "-", kind |-> "none"]

\* The rows that exist were created as aws t3.micro and getInstanceSpecs has
\* not been called since.
InitCatalog ==
  /\ instance = [s \in DOMAIN server |->
                   IF server[s].status = "none" THEN NoInstance
                   ELSE Created("aws", "t3.micro")]
  /\ lookup = NoLookup

\* No division has been made: the number 0.
Zero == [num |-> 0, den |-> 1]

\* The overview's state before any request: no sample is stored and nothing
\* has been answered.
NoOverview ==
  [stored |-> <<>>, now |-> 0, serverStats |-> <<>>, recentMetrics |-> <<>>,
   alerts |-> <<>>, averageUsage |-> [cpu |-> Zero, memory |-> Zero, disk |-> Zero]]

\* The metrics route before any request.
NoServerMetrics ==
  [hours |-> [given |-> FALSE, value |-> 0], now |-> 0, stored |-> <<>>,
   interval |-> 0, processedMetrics |-> <<>>]

\* The usage route before any request.
NoUsage ==
  [servers |-> <<>>, now |-> 0, serverUsage |-> <<>>, estimatedMonthlyCost |-> 0,
   currentMonthUsage |-> Zero, projectedMonthlyCost |-> Zero]

\* No route that only reads has been requested.
InitReports ==
  /\ overview = NoOverview
  /\ serverMetrics = NoServerMetrics
  /\ billing = NoUsage

\* No deployment has been requested and no overview has been read.
InitRoutes ==
  /\ deployment = [d \in DeploymentIds |-> NoDeployment]
  /\ deployReq = [d \in DeploymentIds |-> [pc |-> "idle", serverId |-> "-"]]
  /\ stages = [d \in DeploymentIds |-> [first |-> "none", second |-> "none"]]
  /\ redeployReq = [d \in DeploymentIds |-> "idle"]
  /\ InitReports

InitFor(ids) ==
  /\ server = [s \in ids |-> [status |-> "none", ipAddress |-> NoAddr]]
  /\ provision = [s \in ids |-> [pc |-> "none", ipAddress |-> NoAddr]]
  /\ startReq = [s \in ids |-> "idle"]
  /\ stopReq = [s \in ids |-> "idle"]
  /\ metricsIntervals = [s \in ids |-> NoTimer]
  /\ liveTimers = {}
  /\ ticks = [s \in ids |-> [i \in Slots |-> IdleTick]]
  /\ metrics = [s \in ids |-> <<>>]
  /\ inserted = [s \in ids |-> 0]
  /\ emitted = [last |-> Message("-", "-", NoStatus, NoAddr, NoRow), seq |-> 0]
  /\ response = NoResponse
  /\ InitCatalog
  /\ InitRoutes

Init == InitFor(ServerIds)

\* --------------------------------------------- POST / and provisionServer

\* POST /: 400 for a provider the validation refuses and 500 when
\* getInstanceSpecs throws or the row is refused; otherwise
\* prisma.server.create with the catalog's price, status pending and the
\* placeholder address, then provisionServer's findUnique of the row just
\* created.
CreateServer(s) ==
  /\ server[s].status = "none"
  /\ \E request \in Requests :
       LET specs == GetInstanceSpecs(request.provider, request.instanceType)
           called == [provider |-> request.provider, instanceType |-> request.instanceType,
                      kind |-> specs.kind]
       IN IF request.provider \notin Providers
            THEN /\ response' = Respond("create", s, 400)
                 /\ UNCHANGED <<server, provision, instance, lookup>>
            ELSE IF ~CreateAccepts(specs)
              THEN /\ response' = Respond("create", s, 500)
                   /\ lookup' = called
                   /\ UNCHANGED <<server, provision, instance>>
              ELSE /\ server' = [server EXCEPT
                                   ![s] = [status |-> "pending", ipAddress |-> Placeholder]]
                   /\ instance' = [instance EXCEPT
                                     ![s] = [provider |-> request.provider,
                                             instanceType |-> request.instanceType,
                                             monthlyPrice |-> specs.value.monthlyPrice]]
                   /\ provision' = [provision EXCEPT ![s].pc = "created"]
                   /\ lookup' = called
                   /\ UNCHANGED response
  /\ UNCHANGED <<deployVars, reportVars, startReq, stopReq, timerVars, ticks, storeVars,
                 emitted>>

\* provisionServer awaiting the provisioning work itself before the route
\* answers: the address is assigned by the request, not by a delayed task.
ProvisionScheduleInline(s) ==
  /\ provision[s].pc = "created"
  /\ \E ip \in GeneratedAddresses :
       /\ server' = [server EXCEPT ![s] = [status |-> "running", ipAddress |-> ip]]
       /\ provision' = [provision EXCEPT ![s] = [pc |-> "written", ipAddress |-> ip]]
  /\ response' = Respond("create", s, 201)
  /\ UNCHANGED <<routeVars, startReq, stopReq, timerVars, ticks, storeVars, emitted>>

\* provisionServer: update {status: 'pending'} succeeds; setTimeout schedules
\* the provisioning callback and the route answers 201.
ProvisionSchedule(s) ==
  /\ provision[s].pc = "created"
  /\ server' = [server EXCEPT ![s].status = "pending"]
  /\ provision' = [provision EXCEPT ![s].pc = "scheduled"]
  /\ response' = Respond("create", s, 201)
  /\ UNCHANGED <<routeVars, startReq, stopReq, timerVars, ticks, storeVars, emitted>>

\* provisionServer: update {status: 'pending'} throws; the error is rethrown,
\* no callback is scheduled and the route answers 500.
ProvisionScheduleFail(s) ==
  /\ provision[s].pc = "created"
  /\ provision' = [provision EXCEPT ![s].pc = "aborted"]
  /\ response' = Respond("create", s, 500)
  /\ UNCHANGED <<routeVars, server, startReq, stopReq, timerVars, ticks, storeVars, emitted>>

\* The setTimeout callback fires: it generates an address and its update
\* {status: 'running', ipAddress} is committed.
ProvisionWrite(s) ==
  /\ provision[s].pc = "scheduled"
  /\ \E ip \in GeneratedAddresses :
       /\ server' = [server EXCEPT ![s] = [status |-> "running", ipAddress |-> ip]]
       /\ provision' = [provision EXCEPT ![s] = [pc |-> "written", ipAddress |-> ip]]
  /\ UNCHANGED <<routeVars, startReq, stopReq, timerVars, ticks, storeVars, emitted, response>>

\* The callback resumes after its update: startMetricsCollection, then the
\* server:status event with the address.
ProvisionCollect(s) ==
  /\ provision[s].pc = "written"
  /\ LET reg == StartMetricsCollection(metricsIntervals, liveTimers, s)
     IN /\ metricsIntervals' = reg.intervals
        /\ liveTimers' = reg.live
  /\ emitted' = Emit(Message(s, "server:status", "running", provision[s].ipAddress, NoRow))
  /\ provision' = [provision EXCEPT ![s].pc = "done"]
  /\ UNCHANGED <<routeVars, server, startReq, stopReq, ticks, storeVars, response>>

\* The callback's update throws: the catch block logs and issues
\* update {status: 'failed'}.
ProvisionWriteFail(s) ==
  /\ provision[s].pc = "scheduled"
  /\ provision' = [provision EXCEPT ![s].pc = "failing"]
  /\ UNCHANGED <<routeVars, server, startReq, stopReq, timerVars, ticks, storeVars, emitted, response>>

\* The catch block's update {status: 'failed'} is committed; the callback ends.
ProvisionFailed(s) ==
  /\ provision[s].pc = "failing"
  /\ server' = [server EXCEPT ![s].status = "failed"]
  /\ provision' = [provision EXCEPT ![s].pc = "failed"]
  /\ UNCHANGED <<routeVars, startReq, stopReq, timerVars, ticks, storeVars, emitted, response>>

\* The catch block's update throws as well: the callback ends with an
\* unhandled rejection and the row is left as it was.
ProvisionFailedFail(s) ==
  /\ provision[s].pc = "failing"
  /\ provision' = [provision EXCEPT ![s].pc = "rejected"]
  /\ UNCHANGED <<routeVars, server, startReq, stopReq, timerVars, ticks, storeVars, emitted, response>>

\* ------------------------------------------ POST /:id/start, startServer

\* POST /:id/start without the check for a running server.
StartRequestUnchecked(s) ==
  /\ startReq[s] = "idle"
  /\ IF ~Exists(s)
       THEN /\ response' = Respond("start", s, 404)
            /\ UNCHANGED startReq
       ELSE /\ startReq' = [startReq EXCEPT ![s] = "checked"]
            /\ UNCHANGED response
  /\ UNCHANGED <<routeVars, server, provision, stopReq, timerVars, ticks, storeVars, emitted>>

\* The route's findFirst and its checks: 404 without a row, 400 when the row
\* is running, otherwise startServer is entered and issues its update.
StartRequest(s) ==
  /\ startReq[s] = "idle"
  /\ IF ~Exists(s)
       THEN /\ response' = Respond("start", s, 404)
            /\ UNCHANGED startReq
       ELSE IF server[s].status = "running"
         THEN /\ response' = Respond("start", s, 400)
              /\ UNCHANGED startReq
         ELSE /\ startReq' = [startReq EXCEPT ![s] = "checked"]
              /\ UNCHANGED response
  /\ UNCHANGED <<routeVars, server, provision, stopReq, timerVars, ticks, storeVars, emitted>>

\* startServer: update {status: 'running'} is committed.
StartWrite(s) ==
  /\ startReq[s] = "checked"
  /\ server' = [server EXCEPT ![s].status = "running"]
  /\ startReq' = [startReq EXCEPT ![s] = "written"]
  /\ UNCHANGED <<routeVars, provision, stopReq, timerVars, ticks, storeVars, emitted, response>>

\* startServer: the update throws; the error is rethrown and the route
\* answers 500.
StartWriteFail(s) ==
  /\ startReq[s] = "checked"
  /\ startReq' = [startReq EXCEPT ![s] = "idle"]
  /\ response' = Respond("start", s, 500)
  /\ UNCHANGED <<routeVars, server, provision, stopReq, timerVars, ticks, storeVars, emitted>>

\* startServer resumes: startMetricsCollection, the server:status event, and
\* the route answers 200.
StartCollect(s) ==
  /\ startReq[s] = "written"
  /\ LET reg == StartMetricsCollection(metricsIntervals, liveTimers, s)
     IN /\ metricsIntervals' = reg.intervals
        /\ liveTimers' = reg.live
  /\ emitted' = Emit(Message(s, "server:status", "running", NoAddr, NoRow))
  /\ startReq' = [startReq EXCEPT ![s] = "idle"]
  /\ response' = Respond("start", s, 200)
  /\ UNCHANGED <<routeVars, server, provision, stopReq, ticks, storeVars>>

\* -------------------------------------------- POST /:id/stop, stopServer

\* The route's findFirst and its checks: 404 without a row, 400 when the row
\* is stopped, otherwise stopServer is entered and issues its update.
StopRequest(s) ==
  /\ stopReq[s] = "idle"
  /\ IF ~Exists(s)
       THEN /\ response' = Respond("stop", s, 404)
            /\ UNCHANGED stopReq
       ELSE IF server[s].status = "stopped"
         THEN /\ response' = Respond("stop", s, 400)
              /\ UNCHANGED stopReq
         ELSE /\ stopReq' = [stopReq EXCEPT ![s] = "checked"]
              /\ UNCHANGED response
  /\ UNCHANGED <<routeVars, server, provision, startReq, timerVars, ticks, storeVars, emitted>>

\* stopServer also marking the deployments of the server as failed.
StopWriteFailsDeployments(s) ==
  /\ stopReq[s] = "checked"
  /\ server' = [server EXCEPT ![s].status = "stopped"]
  /\ stopReq' = [stopReq EXCEPT ![s] = "written"]
  /\ deployment' = [d \in DOMAIN deployment |->
                      IF deployment[d].serverId = s
                        THEN [deployment[d] EXCEPT !.status = "failed"]
                        ELSE deployment[d]]
  /\ UNCHANGED <<provision, startReq, timerVars, ticks, storeVars, emitted, response,
                 deployReq, stages, redeployReq, reportVars, catalogVars>>

\* stopServer: update {status: 'stopped'} is committed.
StopWrite(s) ==
  /\ stopReq[s] = "checked"
  /\ server' = [server EXCEPT ![s].status = "stopped"]
  /\ stopReq' = [stopReq EXCEPT ![s] = "written"]
  /\ UNCHANGED <<routeVars, provision, startReq, timerVars, ticks, storeVars, emitted, response>>

\* stopServer: the update throws; the error is rethrown and the route
\* answers 500.
StopWriteFail(s) ==
  /\ stopReq[s] = "checked"
  /\ stopReq' = [stopReq EXCEPT ![s] = "idle"]
  /\ response' = Respond("stop", s, 500)
  /\ UNCHANGED <<routeVars, server, provision, startReq, timerVars, ticks, storeVars, emitted>>

\* stopServer resuming without the call of stopMetricsCollection.
StopCollectKeepsInterval(s) ==
  /\ stopReq[s] = "written"
  /\ emitted' = Emit(Message(s, "server:status", "stopped", NoAddr, NoRow))
  /\ stopReq' = [stopReq EXCEPT ![s] = "idle"]
  /\ response' = Respond("stop", s, 200)
  /\ UNCHANGED <<routeVars, server, provision, startReq, timerVars, ticks, storeVars>>

\* stopServer resumes: stopMetricsCollection, the server:status event, and
\* the route answers 200.
StopCollect(s) ==
  /\ stopReq[s] = "written"
  /\ LET reg == StopMetricsCollection(metricsIntervals, liveTimers, s)
     IN /\ metricsIntervals' = reg.intervals
        /\ liveTimers' = reg.live
  /\ emitted' = Emit(Message(s, "server:status", "stopped", NoAddr, NoRow))
  /\ stopReq' = [stopReq EXCEPT ![s] = "idle"]
  /\ response' = Respond("stop", s, 200)
  /\ UNCHANGED <<routeVars, server, provision, startReq, ticks, storeVars>>

\* ------------------------------------ startMetricsCollection: the tick

Reverse(rows) == [i \in 1..Len(rows) |-> rows[Len(rows) + 1 - i]]

\* orderBy: {timestamp: 'desc'}.  Rows carry the timestamp of their insert
\* and the table is kept in insertion order, so descending order is the
\* table reversed.
OrderByTimestampDesc(rows) == Reverse(rows)

\* skip: n
Skip(rows, n) == SubSeq(rows, n + 1, Len(rows))

Range(rows) == {rows[i] : i \in 1..Len(rows)}

\* The retention query with orderBy: {timestamp: 'asc'}.
OldMetricsAscending(rows) == Range(Skip(rows, K))

\* findMany {where: {serverId}, orderBy: {timestamp: 'desc'}, skip: 1000}
\* mapped to the ids of its rows.
OldMetrics(rows) == Range(Skip(OrderByTimestampDesc(rows), K))

\* deleteMany {where: {id: {in: ids}}}
DeleteMany(rows, ids) == SelectSeq(rows, LAMBDA m : m \notin ids)

\* A callback that emits its sample before serverMetric.create.
TickFirePublishes(s, i) ==
  /\ \E t \in liveTimers : t.serverId = s
  /\ ticks[s][i].pc = "idle"
  /\ ticks' = [ticks EXCEPT ![s][i].pc = "insert"]
  /\ emitted' = Emit(Message(s, "server:metrics", NoStatus, NoAddr, inserted[s] + 1))
  /\ UNCHANGED <<routeVars, lifecycleVars, timerVars, storeVars>>

\* A live interval of the server fires: the callback generates a sample and
\* issues serverMetric.create.
TickFire(s, i) ==
  /\ \E t \in liveTimers : t.serverId = s
  /\ ticks[s][i].pc = "idle"
  /\ ticks' = [ticks EXCEPT ![s][i].pc = "insert"]
  /\ UNCHANGED <<routeVars, lifecycleVars, timerVars, storeVars, emitted>>

\* serverMetric.create is committed; the callback resumes, emits
\* server:metrics to the server's room and issues the retention findMany.
TickInsert(s, i, cap) ==
  /\ ticks[s][i].pc = "insert"
  /\ inserted[s] < cap
  /\ inserted' = [inserted EXCEPT ![s] = @ + 1]
  /\ metrics' = [metrics EXCEPT ![s] = Append(@, inserted[s] + 1)]
  /\ emitted' = Emit(Message(s, "server:metrics", NoStatus, NoAddr, inserted[s] + 1))
  /\ ticks' = [ticks EXCEPT ![s][i].pc = "find"]
  /\ UNCHANGED <<routeVars, lifecycleVars, timerVars>>

\* The retention findMany answers; with rows to delete the callback issues
\* deleteMany, without any it ends.
TickFind(s, i) ==
  /\ ticks[s][i].pc = "find"
  /\ LET oldMetrics == OldMetrics(metrics[s])
     IN ticks' = [ticks EXCEPT ![s][i] =
                    IF oldMetrics # {}
                      THEN [pc |-> "delete", old |-> oldMetrics]
                      ELSE IdleTick]
  /\ UNCHANGED <<routeVars, lifecycleVars, timerVars, storeVars, emitted>>

\* deleteMany is committed; the callback ends.
TickDelete(s, i) ==
  /\ ticks[s][i].pc = "delete"
  /\ metrics' = [metrics EXCEPT ![s] = DeleteMany(@, ticks[s][i].old)]
  /\ ticks' = [ticks EXCEPT ![s][i] = IdleTick]
  /\ UNCHANGED <<routeVars, lifecycleVars, timerVars, inserted, emitted>>

\* The retention step of a tick in the lifecycle specification, whose store
\* stays below K rows: findMany finds nothing to delete there.  deleteMany
\* is reached in SpecSampling and SpecRetention, which run the collector up
\* to K + Overrun rows.
TickPrune(s, i) == TickFind(s, i) \/ TickDelete(s, i)

\* A catch block that gives up collecting: it clears the server's interval.
TickErrorClearsInterval(s, i) ==
  /\ ticks[s][i].pc \in {"insert", "find", "delete"}
  /\ ticks' = [ticks EXCEPT ![s][i] = IdleTick]
  /\ LET reg == StopMetricsCollection(metricsIntervals, liveTimers, s)
     IN /\ metricsIntervals' = reg.intervals
        /\ liveTimers' = reg.live
  /\ UNCHANGED <<routeVars, lifecycleVars, storeVars, emitted>>

\* A store call of the tick throws: the catch block logs and the callback
\* ends; the interval is left as it is.
TickError(s, i) ==
  /\ ticks[s][i].pc \in {"insert", "find", "delete"}
  /\ ticks' = [ticks EXCEPT ![s][i] = IdleTick]
  /\ UNCHANGED <<routeVars, lifecycleVars, timerVars, storeVars, emitted>>

\* ------------------------------------------- POST /api/deployments

DeploymentExists(d) == deployment[d].status \notin {"none", "deleted"}

\* buildLogs written by the first stage.
BuildStarted ==
  <<"Starting build process...", "Cloning repository...", "Installing dependencies...">>

\* buildLogs written by the second stage.
BuildEnded(success) ==
  IF success
    THEN <<"Build completed successfully!", "Deployment is live.">>
    ELSE <<"Build failed: npm install failed", "Error: Module not found">>

\* buildLogs written by a redeploy.
RedeployStarted == <<"Redeployment started...", "Pulling latest changes...">>

\* The outcome the second stage draws: success ? 'deployed' : 'failed'.
Outcome(success) == IF success THEN "deployed" ELSE "failed"

\* POST / without the check of the server's status.
DeployRequestUnchecked(d, s) ==
  /\ deployReq[d].pc = "idle"
  /\ deployment[d].status # "deleted"
  /\ IF ~Exists(s)
       THEN /\ response' = Respond("deploy", d, 404)
            /\ UNCHANGED deployReq
       ELSE /\ deployReq' = [deployReq EXCEPT ![d] = [pc |-> "checked", serverId |-> s]]
            /\ UNCHANGED response
  /\ UNCHANGED <<server, provision, startReq, stopReq, timerVars, ticks, storeVars, emitted,
                 deployment, stages, redeployReq, reportVars, catalogVars>>

\* The route's findFirst of the server and its checks: 404 without a row,
\* 400 when the row is not running, otherwise the route goes on to its
\* look-up of the name.
DeployRequest(d, s) ==
  /\ deployReq[d].pc = "idle"
  /\ deployment[d].status # "deleted"
  /\ IF ~Exists(s)
       THEN /\ response' = Respond("deploy", d, 404)
            /\ UNCHANGED deployReq
       ELSE IF server[s].status # "running"
         THEN /\ response' = Respond("deploy", d, 400)
              /\ UNCHANGED deployReq
         ELSE /\ deployReq' = [deployReq EXCEPT ![d] = [pc |-> "checked", serverId |-> s]]
              /\ UNCHANGED response
  /\ UNCHANGED <<server, provision, startReq, stopReq, timerVars, ticks, storeVars, emitted,
                 deployment, stages, redeployReq, reportVars, catalogVars>>

\* POST / scheduling both stages at creation, as two independent timers.
DeployCreateSchedulesBoth(d) ==
  /\ deployReq[d].pc = "checked"
  /\ IF DeploymentExists(d)
       THEN /\ response' = Respond("deploy", d, 409)
            /\ UNCHANGED <<deployment, stages>>
       ELSE /\ deployment' = [deployment EXCEPT ![d] =
                                [status |-> "pending", buildLogs |-> NoLogs,
                                 serverId |-> deployReq[d].serverId]]
            /\ stages' = [stages EXCEPT ![d] = [first |-> "scheduled", second |-> "scheduled"]]
            /\ response' = Respond("deploy", d, 201)
  /\ deployReq' = [deployReq EXCEPT ![d].pc = "idle"]
  /\ UNCHANGED <<server, provision, startReq, stopReq, timerVars, ticks, storeVars, emitted,
                 redeployReq, reportVars, catalogVars>>

\* The look-up of the name answers: 409 when a deployment of that name
\* exists; otherwise deployment.create with status pending is committed,
\* setTimeout schedules the first stage and the route answers 201.
DeployCreate(d) ==
  /\ deployReq[d].pc = "checked"
  /\ IF DeploymentExists(d)
       THEN /\ response' = Respond("deploy", d, 409)
            /\ UNCHANGED <<deployment, stages>>
       ELSE /\ deployment' = [deployment EXCEPT ![d] =
                                [status |-> "pending", buildLogs |-> NoLogs,
                                 serverId |-> deployReq[d].serverId]]
            /\ stages' = [stages EXCEPT ![d].first = "scheduled"]
            /\ response' = Respond("deploy", d, 201)
  /\ deployReq' = [deployReq EXCEPT ![d].pc = "idle"]
  /\ UNCHANGED <<server, provision, startReq, stopReq, timerVars, ticks, storeVars, emitted,
                 redeployReq, reportVars, catalogVars>>

\* The look-up or deployment.create throws: nothing is stored or scheduled
\* and the route answers 500.
DeployCreateFail(d) ==
  /\ deployReq[d].pc = "checked"
  /\ deployReq' = [deployReq EXCEPT ![d].pc = "idle"]
  /\ response' = Respond("deploy", d, 500)
  /\ UNCHANGED <<server, provision, startReq, stopReq, timerVars, ticks, storeVars, emitted,
                 deployment, stages, redeployReq, reportVars, catalogVars>>

\* The first stage scheduling the second stage outside its try block, whether
\* or not its update succeeded.
FirstStageAlwaysSchedules(d) ==
  /\ stages[d].first = "scheduled"
  /\ IF DeploymentExists(d)
       THEN /\ deployment' = [deployment EXCEPT ![d].status = "building",
                                                ![d].buildLogs = BuildStarted]
            /\ stages' = [stages EXCEPT ![d] = [first |-> "done", second |-> "scheduled"]]
       ELSE /\ stages' = [stages EXCEPT ![d] = [first |-> "failed", second |-> "scheduled"]]
            /\ UNCHANGED deployment
  /\ UNCHANGED <<server, provision, startReq, stopReq, timerVars, ticks, storeVars, emitted,
                 response, deployReq, redeployReq, reportVars, catalogVars>>

\* The first setTimeout callback fires.  Its update {status: 'building',
\* buildLogs} is committed and it schedules the second stage; on a row that
\* no longer exists the update throws instead and the catch block logs.
FirstStage(d) ==
  /\ stages[d].first = "scheduled"
  /\ IF DeploymentExists(d)
       THEN /\ deployment' = [deployment EXCEPT ![d].status = "building",
                                                ![d].buildLogs = BuildStarted]
            /\ stages' = [stages EXCEPT ![d] = [first |-> "done", second |-> "scheduled"]]
       ELSE /\ stages' = [stages EXCEPT ![d].first = "failed"]
            /\ UNCHANGED deployment
  /\ UNCHANGED <<server, provision, startReq, stopReq, timerVars, ticks, storeVars, emitted,
                 response, deployReq, redeployReq, reportVars, catalogVars>>

\* The first callback's update throws for another reason: the catch block
\* logs and no second stage is scheduled.
FirstStageFail(d) ==
  /\ stages[d].first = "scheduled"
  /\ stages' = [stages EXCEPT ![d].first = "failed"]
  /\ UNCHANGED <<server, provision, startReq, stopReq, timerVars, ticks, storeVars, emitted,
                 response, deployment, deployReq, redeployReq, reportVars, catalogVars>>

\* The second stage emitting 'deployed' whatever outcome it stored.
SecondStageEmitsDeployed(d) ==
  /\ stages[d].second = "scheduled"
  /\ IF DeploymentExists(d)
       THEN \E success \in BOOLEAN :
              /\ deployment' = [deployment EXCEPT ![d].status = Outcome(success),
                                                  ![d].buildLogs = BuildEnded(success)]
              /\ emitted' = Emit(Message(d, "deployment:status", "deployed", NoAddr, NoRow))
              /\ stages' = [stages EXCEPT ![d].second = "done"]
       ELSE /\ stages' = [stages EXCEPT ![d].second = "failed"]
            /\ UNCHANGED <<deployment, emitted>>
  /\ UNCHANGED <<server, provision, startReq, stopReq, timerVars, ticks, storeVars,
                 response, deployReq, redeployReq, reportVars, catalogVars>>

\* The second setTimeout callback fires.  It draws the outcome, its update
\* {status, buildLogs} is committed and it emits deployment:status to the
\* deployment's room; on a row that no longer exists the update throws
\* instead and the catch block logs.
SecondStage(d) ==
  /\ stages[d].second = "scheduled"
  /\ IF DeploymentExists(d)
       THEN \E success \in BOOLEAN :
              /\ deployment' = [deployment EXCEPT ![d].status = Outcome(success),
                                                  ![d].buildLogs = BuildEnded(success)]
              /\ emitted' = Emit(Message(d, "deployment:status", Outcome(success), NoAddr, NoRow))
              /\ stages' = [stages EXCEPT ![d].second = "done"]
       ELSE /\ stages' = [stages EXCEPT ![d].second = "failed"]
            /\ UNCHANGED <<deployment, emitted>>
  /\ UNCHANGED <<server, provision, startReq, stopReq, timerVars, ticks, storeVars,
                 response, deployReq, redeployReq, reportVars, catalogVars>>

\* The second callback's update throws for another reason: the catch block
\* logs and nothing is emitted.
SecondStageFail(d) ==
  /\ stages[d].second = "scheduled"
  /\ stages' = [stages EXCEPT ![d].second = "failed"]
  /\ UNCHANGED <<server, provision, startReq, stopReq, timerVars, ticks, storeVars, emitted,
                 response, deployment, deployReq, redeployReq, reportVars, catalogVars>>

\* ---------------------------------------------- POST /:id/redeploy

\* The route's findFirst of the deployment with its server and its checks:
\* 404 without a row, 400 when the server is not running, otherwise the
\* route issues its update.
RedeployRequest(d) ==
  /\ redeployReq[d] = "idle"
  /\ IF ~DeploymentExists(d)
       THEN /\ response' = Respond("redeploy", d, 404)
            /\ UNCHANGED redeployReq
       ELSE IF server[deployment[d].serverId].status # "running"
         THEN /\ response' = Respond("redeploy", d, 400)
              /\ UNCHANGED redeployReq
         ELSE /\ redeployReq' = [redeployReq EXCEPT ![d] = "checked"]
              /\ UNCHANGED response
  /\ UNCHANGED <<server, provision, startReq, stopReq, timerVars, ticks, storeVars, emitted,
                 deployment, deployReq, stages, reportVars, catalogVars>>

\* The route's update {status: 'building', buildLogs} is committed and the
\* route answers 200; on a row that no longer exists the update throws and
\* the route answers 500.  No task is scheduled.
RedeployWrite(d) ==
  /\ redeployReq[d] = "checked"
  /\ IF DeploymentExists(d)
       THEN /\ deployment' = [deployment EXCEPT ![d].status = "building",
                                                ![d].buildLogs = RedeployStarted]
            /\ response' = Respond("redeploy", d, 200)
       ELSE /\ response' = Respond("redeploy", d, 500)
            /\ UNCHANGED deployment
  /\ redeployReq' = [redeployReq EXCEPT ![d] = "idle"]
  /\ UNCHANGED <<server, provision, startReq, stopReq, timerVars, ticks, storeVars, emitted,
                 deployReq, stages, reportVars, catalogVars>>

\* The route's update throws for another reason: the route answers 500.
RedeployWriteFail(d) ==
  /\ redeployReq[d] = "checked"
  /\ redeployReq' = [redeployReq EXCEPT ![d] = "idle"]
  /\ response' = Respond("redeploy", d, 500)
  /\ UNCHANGED <<server, provision, startReq, stopReq, timerVars, ticks, storeVars, emitted,
                 deployment, deployReq, stages, reportVars, catalogVars>>

\* The deployment's row is deleted from the store.  No route of the backend
\* deletes a deployment; the store offers delete for Deployment records to
\* its other users.  A row of the model stands for one id and one name: the
\* name of a deleted row is not requested again, neither by a request made
\* later nor by one in flight.
DeleteDeployment(d) ==
  /\ DeploymentExists(d)
  /\ deployReq[d].pc = "idle"
  /\ deployment' = [deployment EXCEPT ![d] =
                      [status |-> "deleted", buildLogs |-> NoLogs, serverId |-> "-"]]
  /\ UNCHANGED <<server, provision, startReq, stopReq, timerVars, ticks, storeVars, emitted,
                 response, deployReq, stages, redeployReq, reportVars, catalogVars>>

\* -------------------------------------------- GET /monitoring/overview

\* The stored usages around a threshold: decimals with one digit after the
\* point, from one percent below the threshold on.
Usages(threshold) == [whole : {threshold - 1, threshold}, tenth : 0..MaxTenth]

\* usage.toString(): the digits before the point, the point, the digit
\* after it.
ToString(usage) == <<usage.whole, ".", usage.tenth>>

\* parseFloat(string): the number, counted in tenths.
ParseFloat(string) == string[1] * 10 + string[3]

\* A threshold of the source, counted in tenths.
Tenths(n) == n * 10

\* The samples of a short window: at most MaxRecent rows, each with its
\* server and its three usages.
RecentMetrics ==
  UNION {[1..n -> [serverId : ServerIds,
                   cpuUsage : Usages(CpuThreshold),
                   memoryUsage : Usages(MemoryThreshold),
                   diskUsage : Usages(DiskThreshold)]] : n \in 0..MaxRecent}

CpuHigh(metric) == ParseFloat(ToString(metric.cpuUsage)) > Tenths(CpuThreshold)

MemoryHigh(metric) == ParseFloat(ToString(metric.memoryUsage)) > Tenths(MemoryThreshold)

DiskHigh(metric) == ParseFloat(ToString(metric.diskUsage)) > Tenths(DiskThreshold)

\* The filter with thresholds that are not strict.
HighInclusive(metric) ==
  \/ ParseFloat(ToString(metric.cpuUsage)) >= Tenths(CpuThreshold)
  \/ ParseFloat(ToString(metric.memoryUsage)) >= Tenths(MemoryThreshold)
  \/ ParseFloat(ToString(metric.diskUsage)) >= Tenths(DiskThreshold)

\* The predicate of .filter
High(metric) == CpuHigh(metric) \/ MemoryHigh(metric) \/ DiskHigh(metric)

\* The positions of the rows .filter keeps, in order.
Filtered(rows) == SelectSeq([i \in 1..Len(rows) |-> i], LAMBDA i : High(rows[i]))

\* .slice(0, n)
Slice(seq, n) == SubSeq(seq, 1, IF Len(seq) < n THEN Len(seq) ELSE n)

\* The object .map builds for the row at position i; the row's id is its
\* position in the answer of findMany.
Alert(rows, i) ==
  LET metric == rows[i]
  IN [id |-> <<"alert", i>>,
      serverId |-> metric.serverId,
      type |-> IF CpuHigh(metric) THEN "cpu"
               ELSE IF MemoryHigh(metric) THEN "memory" ELSE "disk",
      value |-> IF CpuHigh(metric) THEN metric.cpuUsage
                ELSE IF MemoryHigh(metric) THEN metric.memoryUsage ELSE metric.diskUsage,
      timestamp |-> metric.timestamp,
      severity |-> "warning"]

\* recentMetrics.filter(...).slice(0, 10).map(...)
Alerts(rows) ==
  LET kept == Slice(Filtered(rows), MaxAlerts)
  IN [k \in 1..Len(kept) |-> Alert(rows, kept[k])]

\* The table of samples: the collectors insert one row every
\* MetricsInterval seconds, so the row at position i carries timestamp
\* i * MetricsInterval.
Stamped(rows) ==
  [i \in 1..Len(rows) |-> [serverId |-> rows[i].serverId,
                           cpuUsage |-> rows[i].cpuUsage,
                           memoryUsage |-> rows[i].memoryUsage,
                           diskUsage |-> rows[i].diskUsage,
                           timestamp |-> i * MetricsInterval]]

\* prisma.server.groupBy({by: ['status']}) reduced to an object: for each
\* status some server has, the number of servers that have it.
ServerStats ==
  LET present == {server[s].status : s \in {x \in DOMAIN server : server[x].status # "none"}}
  IN [status \in present |->
        Cardinality({s \in DOMAIN server : server[s].status = status})]

\* findMany {where: {timestamp: {gte: now - 1 hour}}, orderBy: {timestamp:
\* 'desc'}, take: 100}
FindRecentMetrics(rows, now) ==
  Slice(OrderByTimestampDesc(SelectSeq(rows, LAMBDA metric : metric.timestamp >= now - Hour)),
        TakeLimit)

\* What the callback of recentMetrics.reduce adds for one row: its usages in
\* tenths, and one to the count.
Term(metric) ==
  [cpu |-> ParseFloat(ToString(metric.cpuUsage)),
   memory |-> ParseFloat(ToString(metric.memoryUsage)),
   disk |-> ParseFloat(ToString(metric.diskUsage)),
   count |-> 1]

\* The accumulator after the rows lo..hi, starting from {cpu: 0, memory: 0,
\* disk: 0, count: 0}.  The additions are exact and associative, so the
\* rows are added by halves.
RECURSIVE Reduce(_, _, _)
Reduce(rows, lo, hi) ==
  IF lo > hi THEN [cpu |-> 0, memory |-> 0, disk |-> 0, count |-> 0]
  ELSE IF lo = hi THEN Term(rows[lo])
  ELSE LET mid == (lo + hi) \div 2
           left == Reduce(rows, lo, mid)
           right == Reduce(rows, mid + 1, hi)
       IN [cpu |-> left.cpu + right.cpu,
           memory |-> left.memory + right.memory,
           disk |-> left.disk + right.disk,
           count |-> left.count + right.count]

\* recentMetrics.reduce(..., {cpu: 0, memory: 0, disk: 0, count: 0})
AvgMetrics(rows) == Reduce(rows, 1, Len(rows))

\* a / b for b # 0: the quotient, kept as the pair of its terms.
Divide(a, b) == [num |-> a, den |-> b]

\* avgMetrics.count > 0 ? {cpu: avgMetrics.cpu / avgMetrics.count, ...}
\*                       : {cpu: 0, memory: 0, disk: 0}
AverageUsage(avgMetrics) ==
  IF avgMetrics.count > 0
    THEN [cpu |-> Divide(avgMetrics.cpu, avgMetrics.count),
          memory |-> Divide(avgMetrics.memory, avgMetrics.count),
          disk |-> Divide(avgMetrics.disk, avgMetrics.count)]
    ELSE [cpu |-> Zero, memory |-> Zero, disk |-> Zero]

\* ------------------------------------- GET /monitoring/servers/:id/metrics

\* isInt({min: 1, max: 168}) on the optional query parameter.
ValidHours(hours) == ~hours.given \/ (hours.value >= MinHours /\ hours.value <= MaxHours)

\* parseInt(req.query.hours) || 24
ParseHours(hours) ==
  IF hours.given /\ hours.value # 0 THEN hours.value ELSE DefaultHours

\* ServerService.getServerMetrics: findMany {where: {timestamp: {gte:
\* since}}, orderBy: {timestamp: 'asc'}} over the rows of the server, which
\* the table keeps in insertion order.
GetServerMetrics(rows, now, hours) ==
  SelectSeq(rows, LAMBDA metric : metric.timestamp >= now - hours * Hour)

\* hours <= 24 ? 5 : hours <= 168 ? 60 : 360, in minutes.
Interval(hours) == IF hours <= 24 THEN 5 ELSE IF hours <= 168 THEN 60 ELSE 360

\* The bucket of a timestamp rounded up to the next boundary.
IntervalStartCeiling(timestamp, interval) ==
  ((timestamp + interval * Minute - 1) \div (interval * Minute)) * interval * Minute

\* Math.floor(timestamp.getTime() / (interval * 60 * 1000)) * interval * 60 * 1000
IntervalStart(timestamp, interval) ==
  (timestamp \div (interval * Minute)) * interval * Minute

\* intervalStart.toISOString(): the date and the time of day.
ToISOString(timestamp) == <<timestamp \div (24 * Hour), "T", timestamp % (24 * Hour), "Z">>

\* The key of the bucket a row is pushed to.
Key(metric, interval) == ToISOString(IntervalStart(metric.timestamp, interval))

\* The rows that create a key of groupedMetrics, in order: Object.values
\* answers the groups in the order of their creation.
KeyCreators(rows, interval) ==
  SelectSeq([i \in 1..Len(rows) |-> i],
            LAMBDA i : \A j \in 1..(i - 1) : Key(rows[j], interval) # Key(rows[i], interval))

\* acc[key] after the reduce: the bucket's time and, for each metric, the
\* values pushed to it.
Group(rows, interval, first) ==
  LET members == SelectSeq(rows, LAMBDA metric : Key(metric, interval) = Key(rows[first], interval))
      Pushed(Field(_)) == [k \in 1..Len(members) |-> ParseFloat(ToString(Field(members[k])))]
  IN [timestamp |-> IntervalStart(rows[first].timestamp, interval),
      cpu |-> Pushed(LAMBDA metric : metric.cpuUsage),
      memory |-> Pushed(LAMBDA metric : metric.memoryUsage),
      disk |-> Pushed(LAMBDA metric : metric.diskUsage),
      networkIn |-> Pushed(LAMBDA metric : metric.networkIn),
      networkOut |-> Pushed(LAMBDA metric : metric.networkOut)]

\* Object.values(groupedMetrics)
GroupedMetrics(rows, interval) ==
  LET creators == KeyCreators(rows, interval)
  IN [k \in 1..Len(creators) |-> Group(rows, interval, creators[k])]

\* values.reduce((a, b) => a + b, 0)
RECURSIVE SumOf(_)
SumOf(values) ==
  IF values = <<>> THEN 0 ELSE SumOf(SubSeq(values, 1, Len(values) - 1)) + values[Len(values)]

\* values.reduce((a, b) => a + b, 0) / values.length
MeanOf(values) == Divide(SumOf(values), Len(values))

\* The object .map builds for one group.
Processed(group) ==
  [timestamp |-> group.timestamp,
   cpuUsage |-> MeanOf(group.cpu),
   memoryUsage |-> MeanOf(group.memory),
   diskUsage |-> MeanOf(group.disk),
   networkIn |-> MeanOf(group.networkIn),
   networkOut |-> MeanOf(group.networkOut)]

\* .sort((a, b) => a.timestamp.getTime() - b.timestamp.getTime()): the sort
\* is stable, so an element follows those with a smaller timestamp and those
\* with the same timestamp that come before it.
SortByTimestamp(seq) ==
  LET Rank(i) == Cardinality({j \in 1..Len(seq) :
                                \/ seq[j].timestamp < seq[i].timestamp
                                \/ seq[j].timestamp = seq[i].timestamp /\ j < i}) + 1
  IN [r \in 1..Len(seq) |-> seq[CHOOSE i \in 1..Len(seq) : Rank(i) = r]]

\* Object.values(groupedMetrics).map(...).sort(...)
ProcessedMetrics(rows, interval) ==
  LET groups == GroupedMetrics(rows, interval)
  IN SortByTimestamp([k \in 1..Len(groups) |-> Processed(groups[k])])

\* GET /servers/:id/metrics: 400 for hours outside 1..168, 404 for a server
\* that has no row, and otherwise the buckets of the rows of the window.
GetServerMetricsRoute(s) ==
  LET hours == ParseHours(serverMetrics.hours)
      rows == GetServerMetrics(serverMetrics.stored, serverMetrics.now, hours)
  IN /\ IF ~ValidHours(serverMetrics.hours)
            THEN /\ response' = Respond("metrics", s, 400)
                 /\ UNCHANGED serverMetrics
            ELSE IF server[s].status = "none"
              THEN /\ response' = Respond("metrics", s, 404)
                   /\ UNCHANGED serverMetrics
              ELSE /\ serverMetrics' =
                        [serverMetrics EXCEPT
                           !.interval = Interval(hours),
                           !.processedMetrics = ProcessedMetrics(rows, Interval(hours))]
                   /\ response' = Respond("metrics", s, 200)
     /\ UNCHANGED <<server, provision, startReq, stopReq, timerVars, ticks, storeVars, emitted,
                    deployVars, overview, billing, catalogVars>>

\* ------------------------------------------------------------ GET /usage

\* Date: an instant is counted in parts of a day from the first instant of
\* a year of 365 days; the months are numbered from 0 as getMonth does.
\* The days of the year before the first day of each month, the January
\* that follows included.
MonthStarts == <<0, 31, 59, 90, 120, 151, 181, 212, 243, 273, 304, 334, 365>>

DaysBefore(month) == MonthStarts[month + 1]

\* now.getMonth()
GetMonth(instant) ==
  CHOOSE month \in 0..11 :
    /\ DaysBefore(month) * DayParts <= instant
    /\ instant < DaysBefore(month + 1) * DayParts

\* now.getDate(): the day of the month, from 1.
GetDate(instant) == instant \div DayParts - DaysBefore(GetMonth(instant)) + 1

\* new Date(year, month, date): the first instant of a day; date 0 is the
\* last day of the month before.
NewDate(month, date) == (DaysBefore(month) + date - 1) * DayParts

\* new Date(now.getFullYear(), now.getMonth(), 1)
StartOfMonth(now) == NewDate(GetMonth(now), 1)

\* new Date(now.getFullYear(), now.getMonth() + 1, 0).getDate()
DaysInMonth(now) == GetDate(NewDate(GetMonth(now) + 1, 0))

\* The whole days elapsed since the first instant of the month.
DaysPassedFromZero(now) == GetDate(now) - 1

\* const daysPassed = now.getDate()
DaysPassed(now) == GetDate(now)

\* Math.ceil(a / b) for b > 0.
Ceil(a, b) == IF a >= 0 THEN (a + b - 1) \div b ELSE 0 - ((0 - a) \div b)

\* Math.min(a, b)
MathMin(a, b) == IF a <= b THEN a ELSE b

\* server.createdAt > startOfMonth ? server.createdAt : startOfMonth
ServerStartDate(createdAt, startOfMonth) ==
  IF createdAt > startOfMonth THEN createdAt ELSE startOfMonth

\* The days used, rounded down.
DaysUsedFloor(createdAt, now) ==
  (now - ServerStartDate(createdAt, StartOfMonth(now))) \div DayParts

\* Math.ceil((now.getTime() - serverStartDate.getTime()) / (1000 * 60 * 60 * 24))
DaysUsed(createdAt, now) ==
  Ceil(now - ServerStartDate(createdAt, StartOfMonth(now)), DayParts)

\* quotient * n
Times(quotient, n) == [num |-> quotient.num * n, den |-> quotient.den]

\* quotient / n; a denominator 0 is what is not a finite number.
Over(quotient, n) == [num |-> quotient.num, den |-> quotient.den * n]

\* a + b
Plus(a, b) == [num |-> a.num * b.den + b.num * a.den, den |-> a.den * b.den]

\* (monthlyPrice / daysInMonth) * Math.min(daysUsed, daysPassed), the price
\* counted in tenths.
ProratedCost(monthlyPrice, daysInMonth, daysUsed, daysPassed) ==
  Times(Divide(monthlyPrice, daysInMonth), MathMin(daysUsed, daysPassed))

\* The object .map builds for one server.
ServerUsage(row, now) ==
  LET monthlyPrice == ParseFloat(ToString(row.monthlyPrice))
  IN [id |-> row.id,
      createdAt |-> row.createdAt,
      monthlyPrice |-> monthlyPrice,
      currentCost |-> ProratedCost(monthlyPrice, DaysInMonth(now),
                                   DaysUsed(row.createdAt, now), DaysPassed(now))]

\* totalMonthlyCost and currentUsage after the rows 1..n.
RECURSIVE Totals(_, _)
Totals(serverUsage, n) ==
  IF n = 0 THEN [totalMonthlyCost |-> 0, currentUsage |-> Zero]
  ELSE LET before == Totals(serverUsage, n - 1)
       IN [totalMonthlyCost |-> before.totalMonthlyCost + serverUsage[n].monthlyPrice,
           currentUsage |-> Plus(before.currentUsage, serverUsage[n].currentCost)]

\* GET /usage: the active servers are read, each is given its prorated
\* cost, the costs are added and projected to the month, and the route
\* answers 200.
GetUsage ==
  /\ LET now == billing.now
         serverUsage == [i \in 1..Len(billing.servers) |-> ServerUsage(billing.servers[i], now)]
         totals == Totals(serverUsage, Len(serverUsage))
     IN billing' = [billing EXCEPT
                    !.serverUsage = serverUsage,
                    !.estimatedMonthlyCost = totals.totalMonthlyCost,
                    !.currentMonthUsage = totals.currentUsage,
                    !.projectedMonthlyCost =
                       Times(Over(totals.currentUsage, DaysPassed(now)), DaysInMonth(now))]
  /\ response' = Respond("usage", "-", 200)
  /\ UNCHANGED <<server, provision, startReq, stopReq, timerVars, ticks, storeVars, emitted,
                 deployVars, overview, serverMetrics, catalogVars>>

\* GET /overview: groupBy counts the servers by status, findMany answers
\* the newest rows of the last hour, the alerts and the averages are
\* computed from them and the route answers 200.
GetOverview ==
  /\ LET recentMetrics == FindRecentMetrics(overview.stored, overview.now)
     IN overview' = [overview EXCEPT !.serverStats = ServerStats,
                                     !.recentMetrics = recentMetrics,
                                     !.alerts = Alerts(recentMetrics),
                                     !.averageUsage = AverageUsage(AvgMetrics(recentMetrics))]
  /\ response' = Respond("overview", "-", 200)
  /\ UNCHANGED <<server, provision, startReq, stopReq, timerVars, ticks, storeVars, emitted,
                 deployVars, serverMetrics, billing, catalogVars>>

\* ------------------------------------------------------------------- Next

Next ==
  \/ \E s \in DOMAIN server : CreateServer(s)
  \/ \E s \in DOMAIN server : ProvisionSchedule(s)
  \/ \E s \in DOMAIN server : ProvisionScheduleFail(s)
  \/ \E s \in DOMAIN server : ProvisionWrite(s)
  \/ \E s \in DOMAIN server : ProvisionCollect(s)
  \/ \E s \in DOMAIN server : ProvisionWriteFail(s)
  \/ \E s \in DOMAIN server : ProvisionFailed(s)
  \/ \E s \in DOMAIN server : ProvisionFailedFail(s)
  \/ \E s \in DOMAIN server : StartRequest(s)
  \/ \E s \in DOMAIN server : StartWrite(s)
  \/ \E s \in DOMAIN server : StartWriteFail(s)
  \/ \E s \in DOMAIN server : StartCollect(s)
  \/ \E s \in DOMAIN server : StopRequest(s)
  \/ \E s \in DOMAIN server : StopWrite(s)
  \/ \E s \in DOMAIN server : StopWriteFail(s)
  \/ \E s \in DOMAIN server : StopCollect(s)
  \/ \E s \in DOMAIN server : \E i \in DOMAIN ticks[s] : TickFire(s, i)
  \/ \E s \in DOMAIN server : \E i \in DOMAIN ticks[s] : TickInsert(s, i, MaxSamples)
  \/ \E s \in DOMAIN server : \E i \in DOMAIN ticks[s] : TickPrune(s, i)
  \/ \E s \in DOMAIN server : \E i \in DOMAIN ticks[s] : TickError(s, i)

Spec == Init /\ [][Next]_vars

\* ------------------------------------------- the collector on its own

\* The state a created server is in once its provisioning has succeeded and
\* its requests have been answered: running, one interval registered, no
\* row collected yet.
InitCollecting ==
  /\ server = [s \in ServerIds |-> [status |-> "running", ipAddress |-> <<10, 0, 0, 0>>]]
  /\ provision = [s \in ServerIds |-> [pc |-> "done", ipAddress |-> <<10, 0, 0, 0>>]]
  /\ startReq = [s \in ServerIds |-> "idle"]
  /\ stopReq = [s \in ServerIds |-> "idle"]
  /\ metricsIntervals = [s \in ServerIds |-> 1]
  /\ liveTimers = {[id |-> 1, serverId |-> s] : s \in ServerIds}
  /\ ticks = [s \in ServerIds |-> [i \in OverlapSlots |-> IdleTick]]
  /\ metrics = [s \in ServerIds |-> <<>>]
  /\ inserted = [s \in ServerIds |-> 0]
  /\ emitted = [last |-> Message("srv1", "server:status", "running", <<10, 0, 0, 0>>, NoRow),
                seq |-> 1]
  /\ response = Respond("create", "srv1", 201)
  /\ InitCatalog
  /\ InitRoutes

\* Ticks whose store calls all succeed.
NextSampling ==
  \/ \E s \in DOMAIN server : \E i \in DOMAIN ticks[s] : TickFire(s, i)
  \/ \E s \in DOMAIN server : \E i \in DOMAIN ticks[s] : TickInsert(s, i, K + Overrun)
  \/ \E s \in DOMAIN server : \E i \in DOMAIN ticks[s] : TickFind(s, i)
  \/ \E s \in DOMAIN server : \E i \in DOMAIN ticks[s] : TickDelete(s, i)

SpecSampling == InitCollecting /\ [][NextSampling]_vars

\* Ticks whose store calls may throw.
NextRetention ==
  \/ NextSampling
  \/ \E s \in DOMAIN server : \E i \in DOMAIN ticks[s] : TickError(s, i)

SpecRetention == InitCollecting /\ [][NextRetention]_vars

\* ------------------------------- the collector's methods called directly

\* ServerService.startMetricsCollection(serverId) called by any caller.
CallStartMetricsCollection(s) ==
  /\ LET reg == StartMetricsCollection(metricsIntervals, liveTimers, s)
     IN /\ metricsIntervals' = reg.intervals
        /\ liveTimers' = reg.live
  /\ UNCHANGED <<routeVars, lifecycleVars, ticks, storeVars, emitted>>

\* ServerService.stopMetricsCollection(serverId) called by any caller.
CallStopMetricsCollection(s) ==
  /\ metricsIntervals[s] # NoTimer
  /\ LET reg == StopMetricsCollection(metricsIntervals, liveTimers, s)
     IN /\ metricsIntervals' = reg.intervals
        /\ liveTimers' = reg.live
  /\ UNCHANGED <<routeVars, lifecycleVars, ticks, storeVars, emitted>>

NextCalls ==
  \/ Next
  \/ \E s \in DOMAIN server : CallStartMetricsCollection(s)
  \/ \E s \in DOMAIN server : CallStopMetricsCollection(s)

SpecCalls == Init /\ [][NextCalls]_vars

\* ------------------------------------------- the deployment pipeline

\* Start and stop requests on servers, without collection ticks.
NextStartStop ==
  \/ \E s \in DOMAIN server : StartRequest(s)
  \/ \E s \in DOMAIN server : StartWrite(s)
  \/ \E s \in DOMAIN server : StartWriteFail(s)
  \/ \E s \in DOMAIN server : StartCollect(s)
  \/ \E s \in DOMAIN server : StopRequest(s)
  \/ \E s \in DOMAIN server : StopWrite(s)
  \/ \E s \in DOMAIN server : StopWriteFail(s)
  \/ \E s \in DOMAIN server : StopCollect(s)

\* The requests on deployments and their stages.
NextPipeline ==
  \/ \E d \in DOMAIN deployment : \E s \in DOMAIN server : DeployRequest(d, s)
  \/ \E d \in DOMAIN deployment : DeployCreate(d)
  \/ \E d \in DOMAIN deployment : DeployCreateFail(d)
  \/ \E d \in DOMAIN deployment : FirstStage(d)
  \/ \E d \in DOMAIN deployment : FirstStageFail(d)
  \/ \E d \in DOMAIN deployment : SecondStage(d)
  \/ \E d \in DOMAIN deployment : SecondStageFail(d)
  \/ \E d \in DOMAIN deployment : RedeployRequest(d)
  \/ \E d \in DOMAIN deployment : RedeployWrite(d)
  \/ \E d \in DOMAIN deployment : RedeployWriteFail(d)
  \/ \E d \in DOMAIN deployment : DeleteDeployment(d)

\* The pipeline on a provisioned server that is started and stopped.
NextDeploy ==
  \/ NextStartStop
  \/ NextPipeline

SpecDeploy == InitCollecting /\ [][NextDeploy]_vars

\* The pipeline with a store that does not fail and rows that stay.
NextStaged ==
  \/ \E s \in DOMAIN server : StartRequest(s)
  \/ \E s \in DOMAIN server : StartWrite(s)
  \/ \E s \in DOMAIN server : StartCollect(s)
  \/ \E s \in DOMAIN server : StopRequest(s)
  \/ \E s \in DOMAIN server : StopWrite(s)
  \/ \E s \in DOMAIN server : StopCollect(s)
  \/ \E d \in DOMAIN deployment : \E s \in DOMAIN server : DeployRequest(d, s)
  \/ \E d \in DOMAIN deployment : DeployCreate(d)
  \/ \E d \in DOMAIN deployment : FirstStage(d)
  \/ \E d \in DOMAIN deployment : SecondStage(d)
  \/ \E d \in DOMAIN deployment : RedeployRequest(d)
  \/ \E d \in DOMAIN deployment : RedeployWrite(d)

\* A pending setTimeout callback is run by the event loop once its delay has
\* passed: a scheduled stage eventually fires.
StagesFire ==
  \A d \in DeploymentIds : WF_vars(FirstStage(d)) /\ WF_vars(SecondStage(d))

SpecStaged == InitCollecting /\ [][NextStaged]_vars /\ StagesFire

\* ------------------------------------ two servers and two deployments

FrameServers == {"srv1", "srv2"}

FrameDeployments == {"dep1", "dep2"}

\* One callback of each interval runs at a time.
FrameSlots == {1}

Provisioned == [status |-> "running", ipAddress |-> <<10, 0, 0, 0>>]

ProvisionDone == [pc |-> "done", ipAddress |-> <<10, 0, 0, 0>>]

Deployed == [status |-> "deployed", buildLogs |-> BuildEnded(TRUE), serverId |-> "srv1"]

Building == [status |-> "building", buildLogs |-> BuildStarted, serverId |-> "srv1"]

BothStagesDone == [first |-> "done", second |-> "done"]

SecondScheduled == [first |-> "done", second |-> "scheduled"]

\* The state with the given rows, in which every registered interval is
\* live and no request and no tick is in flight.
InitQuiet(srv, prov, mi, rows, last, resp, dep, stg) ==
  /\ server = srv
  /\ provision = prov
  /\ startReq = [s \in FrameServers |-> "idle"]
  /\ stopReq = [s \in FrameServers |-> "idle"]
  /\ metricsIntervals = mi
  /\ liveTimers = {[id |-> mi[s], serverId |-> s] : s \in {x \in FrameServers : mi[x] # NoTimer}}
  /\ ticks = [s \in FrameServers |-> [i \in FrameSlots |-> IdleTick]]
  /\ metrics = rows
  /\ inserted = [s \in FrameServers |-> Len(rows[s])]
  /\ emitted = [last |-> last, seq |-> 1]
  /\ response = resp
  /\ InitCatalog
  /\ deployment = dep
  /\ deployReq = [d \in FrameDeployments |-> [pc |-> "idle", serverId |-> "srv1"]]
  /\ stages = stg
  /\ redeployReq = [d \in FrameDeployments |-> "idle"]
  /\ InitReports

\* Both servers run and collect: srv1 has K rows, srv2 its first row; both
\* deployments are deployed.
InitFullStore ==
  InitQuiet([s \in FrameServers |-> Provisioned],
            [s \in FrameServers |-> ProvisionDone],
            [s \in FrameServers |-> IF s = "srv1" THEN 1 ELSE 2],
            [s \in FrameServers |-> IF s = "srv1" THEN [j \in 1..K |-> j] ELSE <<1>>],
            Message("srv1", "server:metrics", NoStatus, NoAddr, K),
            Respond("create", "srv2", 201),
            [d \in FrameDeployments |-> Deployed],
            [d \in FrameDeployments |-> BothStagesDone])

\* srv1 runs and has collected its first row, srv2 has just been created;
\* dep1 is building, dep2 is deployed.
InitProvisioning ==
  InitQuiet([s \in FrameServers |->
               IF s = "srv1" THEN Provisioned
                             ELSE [status |-> "pending", ipAddress |-> Placeholder]],
            [s \in FrameServers |->
               IF s = "srv1" THEN ProvisionDone
                             ELSE [pc |-> "scheduled", ipAddress |-> NoAddr]],
            [s \in FrameServers |-> IF s = "srv1" THEN 1 ELSE NoTimer],
            [s \in FrameServers |-> IF s = "srv1" THEN <<1>> ELSE <<>>],
            Message("srv1", "server:metrics", NoStatus, NoAddr, 1),
            Respond("create", "srv2", 201),
            [d \in FrameDeployments |-> IF d = "dep1" THEN Building ELSE Deployed],
            [d \in FrameDeployments |-> IF d = "dep1" THEN SecondScheduled ELSE BothStagesDone])

\* srv1 has been stopped and the provisioning of srv2 has failed; dep1 has
\* just been created, dep2 is building.
InitStages ==
  InitQuiet([s \in FrameServers |->
               IF s = "srv1" THEN [status |-> "stopped", ipAddress |-> <<10, 0, 0, 0>>]
                             ELSE [status |-> "failed", ipAddress |-> Placeholder]],
            [s \in FrameServers |->
               IF s = "srv1" THEN ProvisionDone
                             ELSE [pc |-> "failed", ipAddress |-> NoAddr]],
            [s \in FrameServers |-> NoTimer],
            [s \in FrameServers |-> <<>>],
            Message("srv1", "server:status", "stopped", NoAddr, NoRow),
            Respond("stop", "srv1", 200),
            [d \in FrameDeployments |->
               IF d = "dep1" THEN [status |-> "pending", buildLogs |-> NoLogs, serverId |-> "srv1"]
                             ELSE Building],
            [d \in FrameDeployments |->
               IF d = "dep1" THEN [first |-> "scheduled", second |-> "none"]
                             ELSE SecondScheduled])

InitFrame == InitFullStore \/ InitProvisioning \/ InitStages

\* The rows a collector may insert: MaxFrameSamples into a store that is not
\* full, and as many beyond the K rows of a full one.
FrameCap(s) == (IF inserted[s] < K THEN 0 ELSE K) + MaxFrameSamples

\* Provisioning, stopping, ticks and stages, failures included.
NextFrame ==
  \/ \E s \in DOMAIN server : ProvisionWrite(s)
  \/ \E s \in DOMAIN server : ProvisionCollect(s)
  \/ \E s \in DOMAIN server : ProvisionWriteFail(s)
  \/ \E s \in DOMAIN server : ProvisionFailed(s)
  \/ \E s \in DOMAIN server : StopRequest(s)
  \/ \E s \in DOMAIN server : StopWrite(s)
  \/ \E s \in DOMAIN server : StopCollect(s)
  \/ \E s \in DOMAIN server : \E i \in DOMAIN ticks[s] : TickFire(s, i)
  \/ \E s \in DOMAIN server : \E i \in DOMAIN ticks[s] : TickInsert(s, i, FrameCap(s))
  \/ \E s \in DOMAIN server : \E i \in DOMAIN ticks[s] : TickFind(s, i)
  \/ \E s \in DOMAIN server : \E i \in DOMAIN ticks[s] : TickDelete(s, i)
  \/ \E s \in DOMAIN server : \E i \in DOMAIN ticks[s] : TickError(s, i)
  \/ \E d \in DOMAIN deployment : FirstStage(d)
  \/ \E d \in DOMAIN deployment : FirstStageFail(d)
  \/ \E d \in DOMAIN deployment : SecondStage(d)
  \/ \E d \in DOMAIN deployment : SecondStageFail(d)

SpecFrame == InitFrame /\ [][NextFrame]_vars

\* ----------------------------------------------- the overview alone

\* No server row is left; the table of samples holds any of RecentMetrics,
\* the request arrives with the last insert and no overview has been
\* answered.
InitOverview ==
  /\ server = [s \in ServerIds |-> [status |-> "none", ipAddress |-> NoAddr]]
  /\ provision = [s \in ServerIds |-> [pc |-> "none", ipAddress |-> NoAddr]]
  /\ startReq = [s \in ServerIds |-> "idle"]
  /\ stopReq = [s \in ServerIds |-> "idle"]
  /\ metricsIntervals = [s \in ServerIds |-> NoTimer]
  /\ liveTimers = {}
  /\ ticks = [s \in ServerIds |-> [i \in Slots |-> IdleTick]]
  /\ metrics = [s \in ServerIds |-> <<>>]
  /\ inserted = [s \in ServerIds |-> 0]
  /\ emitted = [last |-> Message("-", "-", NoStatus, NoAddr, NoRow), seq |-> 0]
  /\ response = NoResponse
  /\ InitCatalog
  /\ deployment = [d \in DeploymentIds |-> NoDeployment]
  /\ deployReq = [d \in DeploymentIds |-> [pc |-> "idle", serverId |-> "-"]]
  /\ stages = [d \in DeploymentIds |-> [first |-> "none", second |-> "none"]]
  /\ redeployReq = [d \in DeploymentIds |-> "idle"]
  /\ \E rows \in RecentMetrics :
       overview = [NoOverview EXCEPT !.stored = Stamped(rows),
                                     !.now = Len(rows) * MetricsInterval]
  /\ serverMetrics = NoServerMetrics
  /\ billing = NoUsage

NextOverview == GetOverview

SpecOverview == InitOverview /\ [][NextOverview]_vars

\* ------------------------------------------ the overview of a long window

\* The samples of a long window all carry the same whole-percent offset from
\* the thresholds and the same digit after the point.
WindowSamples ==
  {[serverId |-> s,
    cpuUsage |-> [whole |-> CpuThreshold - below, tenth |-> tenth],
    memoryUsage |-> [whole |-> MemoryThreshold - below, tenth |-> tenth],
    diskUsage |-> [whole |-> DiskThreshold - below, tenth |-> tenth]] :
     s \in ServerIds, below \in {0, 1}, tenth \in 0..MaxTenth}

\* The request arrives with the last insert, half an hour or an hour later.
Delays == {0, Hour \div 2, Hour}

\* The table holds up to MaxStored samples: the oldest is any of
\* WindowSamples and so are the later ones, all alike.
InitWindow ==
  /\ server = [s \in ServerIds |-> [status |-> "none", ipAddress |-> NoAddr]]
  /\ provision = [s \in ServerIds |-> [pc |-> "none", ipAddress |-> NoAddr]]
  /\ startReq = [s \in ServerIds |-> "idle"]
  /\ stopReq = [s \in ServerIds |-> "idle"]
  /\ metricsIntervals = [s \in ServerIds |-> NoTimer]
  /\ liveTimers = {}
  /\ ticks = [s \in ServerIds |-> [i \in Slots |-> IdleTick]]
  /\ metrics = [s \in ServerIds |-> <<>>]
  /\ inserted = [s \in ServerIds |-> 0]
  /\ emitted = [last |-> Message("-", "-", NoStatus, NoAddr, NoRow), seq |-> 0]
  /\ response = NoResponse
  /\ InitCatalog
  /\ deployment = [d \in DeploymentIds |-> NoDeployment]
  /\ deployReq = [d \in DeploymentIds |-> [pc |-> "idle", serverId |-> "-"]]
  /\ stages = [d \in DeploymentIds |-> [first |-> "none", second |-> "none"]]
  /\ redeployReq = [d \in DeploymentIds |-> "idle"]
  /\ \E n \in 0..MaxStored, oldest \in WindowSamples, later \in WindowSamples,
        delay \in Delays :
       overview = [NoOverview EXCEPT
                     !.stored = Stamped([i \in 1..n |-> IF i = 1 THEN oldest ELSE later]),
                     !.now = n * MetricsInterval + delay]
  /\ serverMetrics = NoServerMetrics
  /\ billing = NoUsage

SpecWindow == InitWindow /\ [][NextOverview]_vars

\* ----------------------------------------------- the metrics of one server

\* The hours of the query: none, or a number around the bounds of the
\* validation and of the bucket widths.
Queries ==
  {[given |-> FALSE, value |-> 0]}
    \cup {[given |-> TRUE, value |-> h] :
            h \in {MinHours - 1, MinHours, DefaultHours, DefaultHours + 1, MaxHours, MaxHours + 1}}

\* The time of the request, in seconds: a time that is on no bucket boundary.
Now == 2000000

\* How long before the request a row was inserted: around one collection
\* interval, five minutes, one hour, one day and one week.
Ages ==
  {0, MetricsInterval, 5 * Minute, Hour, DefaultHours * Hour, DefaultHours * Hour + MetricsInterval,
   MaxHours * Hour, MaxHours * Hour + MetricsInterval}

\* A row of a level: its five readings differ from each other and from
\* those of the other levels.
Reading(level, timestamp) ==
  [timestamp |-> timestamp,
   cpuUsage |-> [whole |-> 10 * level, tenth |-> level],
   memoryUsage |-> [whole |-> 20 * level, tenth |-> 0],
   diskUsage |-> [whole |-> 30 * level, tenth |-> level],
   networkIn |-> [whole |-> 1000 * level, tenth |-> 0],
   networkOut |-> [whole |-> 2000 * level, tenth |-> 5]]

\* The rows of the ages in a set, oldest first, each of the level given
\* for its age.
RowsAt(ages, level) ==
  LET Rank(a) == Cardinality({b \in ages : b > a}) + 1
  IN [r \in 1..Cardinality(ages) |->
        LET a == CHOOSE x \in ages : Rank(x) = r IN Reading(level[a], Now - a)]

\* The server has a row or none; its table of samples holds at most
\* MaxBucketed rows of the ages of Ages and the query is any of Queries.
InitBuckets ==
  /\ \E status \in {"none", "running"} :
       server = [s \in ServerIds |->
                   [status |-> status,
                    ipAddress |-> IF status = "none" THEN NoAddr ELSE <<10, 0, 0, 0>>]]
  /\ provision = [s \in ServerIds |-> [pc |-> "none", ipAddress |-> NoAddr]]
  /\ startReq = [s \in ServerIds |-> "idle"]
  /\ stopReq = [s \in ServerIds |-> "idle"]
  /\ metricsIntervals = [s \in ServerIds |-> NoTimer]
  /\ liveTimers = {}
  /\ ticks = [s \in ServerIds |-> [i \in Slots |-> IdleTick]]
  /\ metrics = [s \in ServerIds |-> <<>>]
  /\ inserted = [s \in ServerIds |-> 0]
  /\ emitted = [last |-> Message("-", "-", NoStatus, NoAddr, NoRow), seq |-> 0]
  /\ response = NoResponse
  /\ InitCatalog
  /\ deployment = [d \in DeploymentIds |-> NoDeployment]
  /\ deployReq = [d \in DeploymentIds |-> [pc |-> "idle", serverId |-> "-"]]
  /\ stages = [d \in DeploymentIds |-> [first |-> "none", second |-> "none"]]
  /\ redeployReq = [d \in DeploymentIds |-> "idle"]
  /\ overview = NoOverview
  /\ billing = NoUsage
  /\ \E hours \in Queries :
     \E ages \in {a \in SUBSET Ages : Cardinality(a) <= MaxBucketed} :
     \E level \in [ages -> 1..MaxLevel] :
       serverMetrics = [NoServerMetrics EXCEPT !.hours = hours, !.now = Now,
                                               !.stored = RowsAt(ages, level)]

NextBuckets == \E s \in DOMAIN server : GetServerMetricsRoute(s)

SpecBuckets == InitBuckets /\ [][NextBuckets]_vars

\* ------------------------------------------------------- the usage alone

\* The prices of the catalog the billed servers have: 8.50 and 18.00.
BilledPrices == {[whole |-> 8, tenth |-> 5], [whole |-> 18, tenth |-> 0]}

\* How long before the request a server was created, in parts of a day:
\* at the request, within the day, a day, ten days and more than a month
\* before, on a day boundary and off it.
CreatedBefore ==
  {0, 1, DayParts, DayParts + 1, 10 * DayParts, 10 * DayParts + 1, 32 * DayParts + 1}

\* No server row is left in the lifecycle's table; the organization has no
\* active server or one, created at most a month before the request, and
\* the request arrives at any instant of the year.
InitUsage ==
  /\ server = [s \in ServerIds |-> [status |-> "none", ipAddress |-> NoAddr]]
  /\ provision = [s \in ServerIds |-> [pc |-> "none", ipAddress |-> NoAddr]]
  /\ startReq = [s \in ServerIds |-> "idle"]
  /\ stopReq = [s \in ServerIds |-> "idle"]
  /\ metricsIntervals = [s \in ServerIds |-> NoTimer]
  /\ liveTimers = {}
  /\ ticks = [s \in ServerIds |-> [i \in Slots |-> IdleTick]]
  /\ metrics = [s \in ServerIds |-> <<>>]
  /\ inserted = [s \in ServerIds |-> 0]
  /\ emitted = [last |-> Message("-", "-", NoStatus, NoAddr, NoRow), seq |-> 0]
  /\ response = NoResponse
  /\ InitCatalog
  /\ deployment = [d \in DeploymentIds |-> NoDeployment]
  /\ deployReq = [d \in DeploymentIds |-> [pc |-> "idle", serverId |-> "-"]]
  /\ stages = [d \in DeploymentIds |-> [first |-> "none", second |-> "none"]]
  /\ redeployReq = [d \in DeploymentIds |-> "idle"]
  /\ overview = NoOverview
  /\ serverMetrics = NoServerMetrics
  /\ \E now \in 0..(DaysBefore(12) * DayParts - 1) :
       \/ billing = [NoUsage EXCEPT !.now = now]
       \/ \E s \in ServerIds, price \in BilledPrices, age \in CreatedBefore :
            billing = [NoUsage EXCEPT
                       !.now = now,
                       !.servers = <<[id |-> s, monthlyPrice |-> price,
                                      createdAt |-> now - age]>>]

NextUsage == GetUsage

SpecUsage == InitUsage /\ [][NextUsage]_vars

\* ================================================================ claims

TimersOf(live, s) == {t \in live : t.serverId = s}

AllIdle(s) == \A i \in DOMAIN ticks[s] : ticks[s][i].pc = "idle"

\* A step in which startMetricsCollection(s) runs: the continuation of
\* startServer or of the provisioning callback, or a step that registers
\* another handle for s.
StartsCollection(s) ==
  \/ startReq[s] = "written" /\ startReq'[s] = "idle"
  \/ provision[s].pc = "written" /\ provision'[s].pc = "done"
  \/ metricsIntervals'[s] # NoTimer /\ metricsIntervals'[s] # metricsIntervals[s]

AtMostOneTimer == \A s \in DOMAIN server : Cardinality(TimersOf(liveTimers, s)) <= 1

RestartLeavesTheNewTimer ==
  \A s \in DOMAIN server :
    (StartsCollection(s) /\ metricsIntervals[s] # NoTimer) =>
      /\ metricsIntervals'[s] # NoTimer
      /\ metricsIntervals'[s] # metricsIntervals[s]
      /\ TimersOf(liveTimers', s) = {[id |-> metricsIntervals'[s], serverId |-> s]}
      /\ \A t \in liveTimers' : t.id # metricsIntervals[s]

\* C1: in every reachable state each server id has at most one live
\* interval, and a step that runs startMetricsCollection(id) on an id that
\* had an interval leaves exactly one live interval for it: a new handle,
\* the previous one cleared.
C1_SingleCollector == []AtMostOneTimer /\ [][RestartLeavesTheNewTimer]_vars

\* C1 witness: with srv1 the only server, handle 2 is only ever handed out
\* while handle 1 is still referenced, that is by a restart.
C1_Restarted ==
  /\ metricsIntervals["srv1"] = 2
  /\ liveTimers = {[id |-> 2, serverId |-> "srv1"]}

Min(a, b) == IF a <= b THEN a ELSE b

\* The min(k, K) most recent of rows 1..k, oldest first.
MostRecent(k) == [j \in 1..Min(k, K) |-> k - Min(k, K) + j]

\* C2: with no store failure, whenever no tick of the server is in flight
\* the rows stored for it are exactly the min(k, K) most recent of the k
\* rows inserted so far.
C2_KeepsMostRecent ==
  \A s \in DOMAIN server : AllIdle(s) => metrics[s] = MostRecent(inserted[s])

\* C2 witness: the tick that inserted row K + 1 has pruned and ended.
C2_Pruned ==
  /\ inserted["srv1"] = K + 1
  /\ AllIdle("srv1")
  /\ Len(metrics["srv1"]) = K

\* C3: whenever no tick of a server is between its insert and its prune,
\* the server has at most K rows stored, store failures and overlapping
\* ticks included.
C3_NeverMoreThanK ==
  \A s \in DOMAIN server :
    (\A i \in DOMAIN ticks[s] : ticks[s][i].pc \notin {"find", "delete"})
      => Len(metrics[s]) <= K

\* An edge of the status graph: pending -> running by provisioning success,
\* pending -> failed by provisioning error, running -> stopped,
\* stopped -> running, anything not terminated -> terminated; and the row's
\* creation in pending.
AllowedEdge(s) ==
  LET from == server[s].status
      to == server'[s].status
  IN \/ from = "none" /\ to = "pending"
     \/ /\ from = "pending" /\ to = "running"
        /\ provision[s].pc = "scheduled" /\ provision'[s].pc = "written"
     \/ /\ from = "pending" /\ to = "failed"
        /\ provision[s].pc = "failing" /\ provision'[s].pc = "failed"
     \/ from = "running" /\ to = "stopped"
     \/ from = "stopped" /\ to = "running"
     \/ from # "terminated" /\ to = "terminated"

\* C4: every change of a server's stored status is along an edge of the
\* status graph.
C4_OnlyGraphEdges ==
  [][\A s \in DOMAIN server :
       server'[s].status # server[s].status => AllowedEdge(s)]_vars

\* C5: a provisioning completion that fires after the server has left
\* pending (it has made another transition since the completion was
\* scheduled) is discarded: it changes neither status nor address and does
\* not go on to start a collector.
C5_StaleCompletionDiscarded ==
  [][\A s \in DOMAIN server :
       (/\ provision[s].pc = "scheduled"
        /\ provision'[s].pc # "scheduled"
        /\ server[s].status # "pending") =>
         /\ server'[s] = server[s]
         /\ provision'[s].pc # "written"
         /\ UNCHANGED timerVars]_vars

\* C6: at the step that ends a provisioning task successfully the server is
\* running, has the address the task generated and has a live registered
\* interval; at the step that ends it in failure the server is failed and
\* has no interval.
C6_ProvisioningOutcome ==
  [][\A s \in DOMAIN server :
       /\ (provision[s].pc = "written" /\ provision'[s].pc = "done") =>
            /\ server'[s].status = "running"
            /\ server'[s].ipAddress = provision[s].ipAddress
            /\ server'[s].ipAddress \in GeneratedAddresses
            /\ metricsIntervals'[s] # NoTimer
            /\ TimersOf(liveTimers', s) = {[id |-> metricsIntervals'[s], serverId |-> s]}
       /\ (provision[s].pc = "failing" /\ provision'[s].pc = "failed") =>
            /\ server'[s].status = "failed"
            /\ metricsIntervals'[s] = NoTimer
            /\ TimersOf(liveTimers', s) = {}]_vars

\* A step of POST /:id/start's route checks for s: it answers, or it enters
\* startServer.
StartRequestStep(s) ==
  /\ startReq[s] = "idle"
  /\ \/ startReq'[s] # "idle"
     \/ response' # response /\ response'.route = "start" /\ response'.serverId = s

\* C7: a start request for a running server is answered 400 and changes
\* nothing: status and address stay, the interval is neither cleared nor
\* replaced, nothing is emitted, startServer is not entered.
C7_StartOfRunningRejected ==
  [][\A s \in DOMAIN server :
       (StartRequestStep(s) /\ server[s].status = "running") =>
         /\ response' = Respond("start", s, 400)
         /\ startReq'[s] = "idle"
         /\ UNCHANGED <<server, provision, timerVars, emitted>>]_vars

\* C7 witness: a start request has been answered 400 for a running server
\* whose collector is registered.
C7_Rejected ==
  /\ response = Respond("start", "srv1", 400)
  /\ server["srv1"].status = "running"
  /\ metricsIntervals["srv1"] # NoTimer

\* A step of POST /:id/stop's route checks for s.
StopRequestStep(s) ==
  /\ stopReq[s] = "idle"
  /\ \/ stopReq'[s] # "idle"
     \/ response' # response /\ response'.route = "stop" /\ response'.serverId = s

\* C8: a stop request for a stopped server is answered 400 and changes
\* nothing; a stop request for a server in any other status enters
\* stopServer, whose update sets the status to stopped, and at the step
\* that answers 200 no interval is registered or live for the server.
C8_StopRequest ==
  [][\A s \in DOMAIN server :
       /\ (StopRequestStep(s) /\ server[s].status = "stopped") =>
            /\ response' = Respond("stop", s, 400)
            /\ stopReq'[s] = "idle"
            /\ UNCHANGED <<server, provision, timerVars, emitted>>
       /\ (StopRequestStep(s) /\ server[s].status \in {"pending", "running", "failed"}) =>
            /\ stopReq'[s] = "checked"
            /\ UNCHANGED <<server, timerVars, emitted, response>>
       /\ (stopReq[s] # "written" /\ stopReq'[s] = "written") =>
            /\ stopReq[s] = "checked"
            /\ server'[s].status = "stopped"
       /\ (response' # response /\ response' = Respond("stop", s, 200)) =>
            /\ stopReq[s] = "written"
            /\ metricsIntervals'[s] = NoTimer
            /\ TimersOf(liveTimers', s) = {}]_vars

\* C8 witness: stop requests have been answered 200 and then 400: the
\* server is stopped and has no interval.
C8_StoppedThenRejected ==
  /\ response = Respond("stop", "srv1", 400)
  /\ server["srv1"].status = "stopped"
  /\ emitted.last = Message("srv1", "server:status", "stopped", NoAddr, NoRow)
  /\ metricsIntervals["srv1"] = NoTimer

\* stopServer has completed for s and s has not been started again: the
\* stored status is stopped, no start or stop request is in progress and no
\* interval is registered.
Halted(s) ==
  /\ server[s].status = "stopped"
  /\ stopReq[s] = "idle"
  /\ startReq[s] = "idle"
  /\ metricsIntervals[s] = NoTimer

\* C9: once stopServer has completed, and until the server is started
\* again, no row is appended to the store for that server.
C9_NoSampleAfterStop ==
  [][\A s \in DOMAIN server :
       Halted(s) => (inserted'[s] = inserted[s] /\ Len(metrics'[s]) <= Len(metrics[s]))]_vars

\* The step emits msg.
Emits(msg) == emitted'.seq # emitted.seq /\ emitted'.last = msg

\* C10: the step that completes a status transition (provisioning success,
\* provisioning failure, start, stop) emits server:status to room
\* server:{id} with the id and the new status, and with the address when
\* the transition assigned one.
C10_TransitionsPublish ==
  [][\A s \in DOMAIN server :
       /\ (provision[s].pc = "written" /\ provision'[s].pc = "done") =>
            Emits(Message(s, "server:status", "running", provision[s].ipAddress, NoRow))
       /\ (provision[s].pc = "failing" /\ provision'[s].pc = "failed") =>
            Emits(Message(s, "server:status", "failed", NoAddr, NoRow))
       /\ (startReq[s] = "written" /\ startReq'[s] = "idle") =>
            Emits(Message(s, "server:status", "running", NoAddr, NoRow))
       /\ (stopReq[s] = "written" /\ stopReq'[s] = "idle") =>
            Emits(Message(s, "server:status", "stopped", NoAddr, NoRow))]_vars

\* C11: the step that creates a server stores it as pending with the
\* placeholder address; the create request is answered 201 at the step that
\* schedules the provisioning task, before the task has fired; and the
\* stored address of an existing server changes only at the step in which
\* the provisioning task's update commits the address it generated.
C11_CreateThenProvision ==
  [][\A s \in DOMAIN server :
       /\ (~Exists(s) /\ server'[s].status # "none") =>
            server'[s] = [status |-> "pending", ipAddress |-> Placeholder]
       /\ (response' # response /\ response' = Respond("create", s, 201)) =>
            /\ provision[s].pc = "created"
            /\ provision'[s].pc = "scheduled"
            /\ server'[s].ipAddress = Placeholder
       /\ (Exists(s) /\ server'[s].ipAddress # server[s].ipAddress) =>
            /\ provision[s].pc = "scheduled"
            /\ provision'[s].pc = "written"
            /\ server'[s].ipAddress = provision'[s].ipAddress
            /\ server'[s].ipAddress \in GeneratedAddresses]_vars

\* C11 witness: the create request has been answered while the provisioning
\* task is still scheduled and the row holds the placeholder.
C11_Acknowledged ==
  /\ response = Respond("create", "srv1", 201)
  /\ provision["srv1"].pc = "scheduled"
  /\ server["srv1"] = [status |-> "pending", ipAddress |-> Placeholder]

Terminal == {"deployed", "failed"}

\* C13: with a store that does not fail and rows that stay, a deployment
\* that an accepted redeploy has put in building (with the redeploy's log)
\* is eventually deployed or failed, whenever the redeploy was issued.
C13_RedeployResolves ==
  \A d \in DeploymentIds :
    (deployment[d].status = "building" /\ deployment[d].buildLogs = RedeployStarted)
      ~> (deployment[d].status \in Terminal)

\* The step is the second stage of d completing.
SecondStageDone(d) == stages[d].second = "scheduled" /\ stages'[d].second = "done"

\* C14: a deployment is created pending; the first stage's step stores
\* building; with fair scheduling and a store that does not fail a pending
\* deployment eventually is building and eventually is deployed or failed,
\* stored by the second stage's step; deployment:status is emitted only by
\* that step, after its update, with the status the update has stored.
C14_StagesResolve ==
  /\ \A d \in DeploymentIds :
       /\ (deployment[d].status = "pending") ~> (deployment[d].status = "building")
       /\ (deployment[d].status = "pending") ~> (deployment[d].status \in Terminal)
  /\ [][\A d \in DOMAIN deployment :
          /\ (~DeploymentExists(d) /\ DeploymentExists(d)') =>
               deployment'[d].status = "pending"
          /\ (stages[d].first = "scheduled" /\ stages'[d].first = "done") =>
               deployment'[d].status = "building"
          /\ SecondStageDone(d) =>
               /\ deployment'[d].status \in Terminal
               /\ Emits(Message(d, "deployment:status", deployment'[d].status, NoAddr, NoRow))
          /\ (emitted' # emitted /\ emitted'.last.event = "deployment:status"
                /\ emitted'.last.room = d) =>
               /\ SecondStageDone(d)
               /\ emitted'.last.status = deployment'[d].status]_vars

\* C14 witness: the second stage has stored failed and the event carrying
\* failed is the last one emitted.
C14_Resolved ==
  /\ deployment["dep1"].status = "failed"
  /\ stages["dep1"] = [first |-> "done", second |-> "done"]
  /\ emitted.last = Message("dep1", "deployment:status", "failed", NoAddr, NoRow)

\* A step of POST /'s checks of the server for d: it answers, or it goes on
\* to create the deployment.
DeployRequestStep(d) ==
  /\ deployReq[d].pc = "idle"
  /\ \/ deployReq'[d].pc # "idle"
     \/ response' # response /\ response'.route = "deploy" /\ response'.serverId = d

\* A step of POST /:id/redeploy's checks for d.
RedeployRequestStep(d) ==
  /\ redeployReq[d] = "idle"
  /\ \/ redeployReq'[d] # "idle"
     \/ response' # response /\ response'.route = "redeploy" /\ response'.serverId = d

\* C12: a deployment request and a redeploy request go past their checks
\* only for a server whose status is running; for a server in another
\* status they are answered 400; a rejected creation stores no deployment
\* and schedules no stage, a rejected redeploy leaves the deployment's
\* status and build log as they were; a deployment is stored and a redeploy
\* is written only by requests that went past the checks.
C12_RequiresRunningServer ==
  [][\A d \in DOMAIN deployment :
       /\ (deployReq[d].pc = "idle" /\ deployReq'[d].pc = "checked") =>
            server[deployReq'[d].serverId].status = "running"
       /\ (DeployRequestStep(d) /\ \A s \in DOMAIN server : server[s].status # "running") =>
            /\ response'.route = "deploy" /\ response'.code \in {400, 404}
            /\ deployReq'[d].pc = "idle"
            /\ UNCHANGED <<deployment, stages, emitted>>
       /\ (~DeploymentExists(d) /\ DeploymentExists(d)') => deployReq[d].pc = "checked"
       /\ (stages[d].first = "none" /\ stages'[d].first # "none") => deployReq[d].pc = "checked"
       /\ (redeployReq[d] = "idle" /\ redeployReq'[d] = "checked") =>
            server[deployment[d].serverId].status = "running"
       /\ (/\ RedeployRequestStep(d)
           /\ DeploymentExists(d)
           /\ server[deployment[d].serverId].status # "running") =>
            /\ response' = Respond("redeploy", d, 400)
            /\ redeployReq'[d] = "idle"
            /\ UNCHANGED <<deployment, stages, emitted>>
       /\ (response' # response /\ response' = Respond("redeploy", d, 200)) =>
            redeployReq[d] = "checked"]_vars

\* C12 witness: a deployment request for the stopped server has been
\* answered 400 and there is neither a row nor a stage.
C12_Rejected ==
  /\ response = Respond("deploy", "dep1", 400)
  /\ server["srv1"].status = "stopped"
  /\ deployment["dep1"] = NoDeployment
  /\ stages["dep1"] = [first |-> "none", second |-> "none"]

\* The step is the redeploy route's update of d being committed.
RedeployWritten(d) ==
  /\ redeployReq[d] = "checked"
  /\ redeployReq'[d] = "idle"
  /\ response' = Respond("redeploy", d, 200)

\* C15: the stored status of a deployment changes only from pending to
\* building, from building to deployed or failed, or to building by a
\* redeploy.
C15_StatusEdges ==
  [][\A d \in DOMAIN deployment :
       (/\ DeploymentExists(d)
        /\ DeploymentExists(d)'
        /\ deployment'[d].status # deployment[d].status) =>
         \/ deployment[d].status = "pending" /\ deployment'[d].status = "building"
         \/ deployment[d].status = "building" /\ deployment'[d].status \in Terminal
         \/ RedeployWritten(d) /\ deployment'[d].status = "building"]_vars

\* C15 witness: both stages have run and a redeploy has taken the
\* deployment from its terminal status back to building.
C15_ResetToBuilding ==
  /\ stages["dep1"] = [first |-> "done", second |-> "done"]
  /\ deployment["dep1"].status = "building"
  /\ deployment["dep1"].buildLogs = RedeployStarted

\* C16: a stage that fires when the deployment's row no longer exists
\* changes no row and emits nothing, and such a first stage schedules no
\* second stage.
C16_MissingRecordDiscards ==
  [][\A d \in DOMAIN deployment :
       /\ (/\ stages[d].first = "scheduled"
           /\ stages'[d].first # "scheduled"
           /\ ~DeploymentExists(d)) =>
            /\ UNCHANGED <<deployment, emitted>>
            /\ stages'[d].second = "none"
       /\ (/\ stages[d].second = "scheduled"
           /\ stages'[d].second # "scheduled"
           /\ ~DeploymentExists(d)) =>
            UNCHANGED <<deployment, emitted>>]_vars

\* C16 witness: the first stage has fired on a deleted row and no second
\* stage is scheduled.
C16_Discarded ==
  /\ deployment["dep1"].status = "deleted"
  /\ stages["dep1"] = [first |-> "failed", second |-> "none"]

\* C19: a step of a server's start or stop request changes no deployment's
\* row and no stage; a scheduled stage can fire whatever the server's
\* status is; a step of a deployment's request or stage changes no server's
\* row, request, registry entry or timer.
C19_ServerAndPipelineApart ==
  /\ [](\A d \in DOMAIN deployment :
          /\ stages[d].first = "scheduled" => ENABLED FirstStage(d)
          /\ stages[d].second = "scheduled" => ENABLED SecondStage(d))
  /\ [][/\ (<<server, startReq, stopReq, timerVars>>' # <<server, startReq, stopReq, timerVars>>)
             => UNCHANGED <<deployment, stages>>
        /\ (deployVars' # deployVars)
             => UNCHANGED <<server, provision, startReq, stopReq, timerVars>>]_vars

\* C19 witness: the server has been stopped since the deployment was
\* accepted, and the deployment has gone through both stages.
C19_DeployedOnStoppedServer ==
  /\ server["srv1"].status = "stopped"
  /\ stopReq["srv1"] = "idle"
  /\ metricsIntervals["srv1"] = NoTimer
  /\ deployment["dep1"].status = "deployed"
  /\ stages["dep1"] = [first |-> "done", second |-> "done"]

\* Tick i of s ends in its catch block: create has thrown, or findMany has
\* thrown with rows beyond K stored, or deleteMany has thrown with rows of
\* its list still stored.
TickFailed(s, i) ==
  /\ ticks'[s][i].pc = "idle"
  /\ \/ ticks[s][i].pc = "insert"
     \/ ticks[s][i].pc = "find" /\ OldMetrics(metrics[s]) # {}
     \/ /\ ticks[s][i].pc = "delete"
        /\ ticks[s][i].old \cap Range(metrics[s]) # {}
        /\ metrics'[s] = metrics[s]

\* The interval registered for s is live and is the only one of s.
Collecting(s) ==
  /\ metricsIntervals[s] # NoTimer
  /\ TimersOf(liveTimers, s) = {[id |-> metricsIntervals[s], serverId |-> s]}

\* C17: a tick that ends in its catch block leaves the registry, the timers,
\* the rows and the server as they were; with no stop of the server its
\* interval stays registered and live whatever number of ticks have failed;
\* while it is, a tick can fire whenever a callback is free; and a tick
\* whose create succeeds appends its row.
C17_FailedTickIsSkipped ==
  /\ [](\A s \in DOMAIN server :
          /\ Collecting(s)
          /\ \A i \in DOMAIN ticks[s] : ticks[s][i].pc = "idle" => ENABLED TickFire(s, i))
  /\ [][\A s \in DOMAIN server : \A i \in DOMAIN ticks[s] :
          /\ TickFailed(s, i) => UNCHANGED <<timerVars, storeVars, server, provision>>
          /\ (ticks[s][i].pc = "insert" /\ ticks'[s][i].pc = "find") =>
               /\ inserted'[s] = inserted[s] + 1
               /\ metrics'[s] = Append(metrics[s], inserted'[s])]_vars

\* C17 witness: K + 2 rows are stored while one tick is between its insert
\* and its prune and the other callback is idle.  Ticks that all succeed
\* never leave more than K + 1 rows behind an idle callback, so a tick has
\* failed, and the tick in flight has appended its row after that.
C17_AppendedAfterFailure ==
  /\ Collecting("srv1")
  /\ ticks["srv1"][1].pc = "find"
  /\ ticks["srv1"][2].pc = "idle"
  /\ Len(metrics["srv1"]) = K + 2

\* What the platform holds for server s.
ServerState(s) ==
  <<server[s], provision[s], startReq[s], stopReq[s], metricsIntervals[s],
    TimersOf(liveTimers, s), ticks[s], metrics[s], inserted[s]>>

\* What the platform holds for deployment d.
DeploymentState(d) == <<deployment[d], deployReq[d], stages[d], redeployReq[d]>>

Above(usage, n) == usage.whole > n \/ (usage.whole = n /\ usage.tenth > 0)

LastHour ==
  SelectSeq(overview.stored, LAMBDA metric : metric.timestamp >= overview.now - Hour)

\* The quotient is the mean of a total over n samples, and 0 for no sample.
IsMean(quotient, total, n) ==
  IF n = 0 THEN quotient.num = 0 ELSE quotient.num * n = total * quotient.den

\* C21: for any number of stored samples, the averages the overview answers
\* are the arithmetic means of cpu, memory and disk over all stored samples
\* of the last hour (0 when there are none), and its alerts are the at most
\* ten most recent samples of that hour that are above a threshold.
C21_OverviewCoversWindow ==
  LET window == LastHour
      total == AvgMetrics(window)
      alerting == SelectSeq(Reverse(window),
                            LAMBDA metric : \/ Above(metric.cpuUsage, 80)
                                            \/ Above(metric.memoryUsage, 85)
                                            \/ Above(metric.diskUsage, 90))
      expected == Slice(alerting, 10)
  IN response = Respond("overview", "-", 200) =>
       /\ IsMean(overview.averageUsage.cpu, total.cpu, Len(window))
       /\ IsMean(overview.averageUsage.memory, total.memory, Len(window))
       /\ IsMean(overview.averageUsage.disk, total.disk, Len(window))
       /\ Len(overview.alerts) = Len(expected)
       /\ \A k \in 1..Len(expected) :
            overview.alerts[k].timestamp = expected[k].timestamp

\* A stored reading counted in tenths.
InTenths(reading) == reading.whole * 10 + reading.tenth

IsQuotient(quotient, a, b) == quotient.den # 0 /\ quotient.num * b = a * quotient.den

\* The whole days, rounded up, from an instant to a later one.
WholeDays(from, to) ==
  (to - from) \div DayParts + (IF (to - from) % DayParts = 0 THEN 0 ELSE 1)

\* C23: the cost the usage answers for a server is its monthly price
\* divided by the days of the month and multiplied by the smaller of the
\* days used and the days elapsed, the days used being the whole days,
\* rounded up, from the later of the creation and the start of the month to
\* now, and the days elapsed counted as the day of the month or as the whole
\* days, rounded up, since the start of the month; price 30 in a month of 30
\* days, 10 days used and the eleventh day running gives 10.
C23_ProratedCost ==
  /\ IsQuotient(ProratedCost(300, 30, 10, 11), 100, 1)
  /\ response = Respond("usage", "-", 200) =>
       \A i \in 1..Len(billing.servers) :
         LET row == billing.servers[i]
             now == billing.now
             startOfMonth == StartOfMonth(now)
             from == IF row.createdAt > startOfMonth THEN row.createdAt ELSE startOfMonth
             daysUsed == WholeDays(from, now)
             price == row.monthlyPrice.whole * 10 + row.monthlyPrice.tenth
         IN \A daysElapsed \in {GetDate(now), WholeDays(startOfMonth, now)} :
              IsQuotient(billing.serverUsage[i].currentCost,
                         price * Min(daysUsed, daysElapsed), DaysInMonth(now))

\* C23 witness: a server of price 18.00 created at the first instant of
\* April has been billed ten full days later: 6.00.
C23_TenDaysOfApril ==
  /\ response = Respond("usage", "-", 200)
  /\ billing.now = (DaysBefore(3) + 10) * DayParts
  /\ Len(billing.servers) = 1
  /\ billing.servers[1].createdAt = DaysBefore(3) * DayParts
  /\ billing.servers[1].monthlyPrice = [whole |-> 18, tenth |-> 0]
  /\ billing.serverUsage[1].currentCost = [num |-> 1800, den |-> 30]

\* C24: the projection the usage answers is the usage of the month divided
\* by the day of the month and multiplied by the days of the month; its
\* divisor is never zero, so it is a number at every time, and at the first
\* instant of a month the usage and the projection are both 0.
C24_ProjectionIsDefined ==
  response = Respond("usage", "-", 200) =>
    LET now == billing.now
        used == billing.currentMonthUsage
        projected == billing.projectedMonthlyCost
    IN /\ used.den # 0
       /\ projected.den # 0
       /\ GetDate(now) # 0
       /\ projected.num * used.den * GetDate(now) = used.num * DaysInMonth(now) * projected.den
       /\ now = StartOfMonth(now) => used.num = 0 /\ projected.num = 0

\* C24 witness: a server created before the month has been billed at the
\* first instant of May: usage 0 and projection 0.
C24_FirstInstantOfMay ==
  /\ response = Respond("usage", "-", 200)
  /\ billing.now = DaysBefore(4) * DayParts
  /\ Len(billing.servers) = 1
  /\ billing.servers[1].createdAt < billing.now
  /\ billing.currentMonthUsage.num = 0
  /\ billing.projectedMonthlyCost = [num |-> 0, den |-> 31]

\* The pair is one of the catalog.
Present(provider, instanceType) ==
  \E specs \in InstanceSpecs : specs.provider = provider /\ specs.instanceType = instanceType

\* C25: getInstanceSpecs answers the catalog's entry for a pair the catalog
\* has and fails with an error for every pair it has not; a create request
\* whose lookup did not answer an entry leaves no server row and no
\* provisioning task; and the price of a row that exists is the catalog's
\* price of its pair.
C25_CatalogLookup ==
  /\ lookup.kind # "none" =>
       IF Present(lookup.provider, lookup.instanceType)
         THEN lookup.kind = "own"
         ELSE lookup.kind = "error"
  /\ \A s \in DOMAIN server :
       (response = Respond("create", s, 500) /\ lookup.kind \notin {"none", "own"}) =>
         server[s].status = "none" /\ provision[s].pc = "none"
  /\ \A s \in DOMAIN server :
       server[s].status # "none" =>
         /\ Present(instance[s].provider, instance[s].instanceType)
         /\ \A specs \in InstanceSpecs :
              (specs.provider = instance[s].provider
                 /\ specs.instanceType = instance[s].instanceType)
                => instance[s].monthlyPrice = specs.monthlyPrice

\* C25, the part on later operations: no step changes the catalog columns
\* of a row that exists.
C25_PriceIsKept ==
  [][\A s \in DOMAIN server : server[s].status # "none" => instance'[s] = instance[s]]_vars

\* C26: the second stage that the creation of a deployment has scheduled
\* and that fires after a redeploy has been accepted (the stored log is the
\* redeploy's) is discarded: its step leaves the deployment's status and
\* build log as they are and emits nothing.
C26_StaleSecondStageDiscarded ==
  [][\A d \in DOMAIN deployment :
       (SecondStageDone(d) /\ deployment[d].buildLogs = RedeployStarted) =>
         /\ deployment'[d].status = deployment[d].status
         /\ deployment'[d].buildLogs = deployment[d].buildLogs
         /\ emitted' = emitted]_vars

\* The sequence of log lines begins with the lines of another.
IsPrefix(before, after) ==
  Len(before) <= Len(after) /\ SubSeq(after, 1, Len(before)) = before

\* C27: every step that changes the stored build log of a deployment that
\* exists before and after it stores a log that begins with the log stored
\* before.
C27_BuildLogAppendOnly ==
  [][\A d \in DOMAIN deployment :
       (DeploymentExists(d) /\ DeploymentExists(d)') =>
         IsPrefix(deployment[d].buildLogs, deployment'[d].buildLogs)]_vars

\* The step emits server:metrics.
EmitsMetrics == emitted'.seq # emitted.seq /\ emitted'.last.event = "server:metrics"

\* C28: a tick appends, publishes and prunes in that order.  server:metrics
\* is emitted only by the step of a tick that resumes after its create has
\* appended the row, with that row and to the room of that tick's server;
\* a tick whose create throws emits nothing; a tick reaches its findMany
\* only by that emitting step and its deleteMany only from its findMany;
\* and rows leave the store only by the deleteMany of a tick of their server.
C28_AppendPublishPrune ==
  [][/\ EmitsMetrics =>
          \E s \in DOMAIN server : \E i \in DOMAIN ticks[s] :
            /\ ticks[s][i].pc = "insert"
            /\ ticks'[s][i].pc = "find"
            /\ metrics'[s] = Append(metrics[s], inserted[s] + 1)
            /\ emitted'.last.room = s
            /\ emitted'.last.serverId = s
            /\ emitted'.last.row = inserted[s] + 1
     /\ \A s \in DOMAIN server :
          /\ \A i \in DOMAIN ticks[s] :
               /\ (ticks[s][i].pc = "insert" /\ ticks'[s][i].pc = "idle") =>
                    UNCHANGED <<emitted, metrics>>
               /\ (ticks[s][i].pc # "find" /\ ticks'[s][i].pc = "find") =>
                    EmitsMetrics /\ emitted'.last.room = s
               /\ (ticks[s][i].pc # "delete" /\ ticks'[s][i].pc = "delete") =>
                    ticks[s][i].pc = "find" /\ UNCHANGED <<emitted, metrics>>
          /\ Range(metrics[s]) \ Range(metrics'[s]) # {} =>
               \E i \in DOMAIN ticks[s] :
                 ticks[s][i].pc = "delete" /\ ticks'[s][i].pc = "idle"]_vars

\* C28 witness: the tick of srv1 that appended row K + 1 has published it
\* to the room of srv1 and is at its deleteMany, which has not run yet,
\* while srv2 has its own row.
C28_PublishedBeforePrune ==
  /\ DOMAIN server = {"srv1", "srv2"}
  /\ ticks["srv1"][1].pc = "delete"
  /\ Len(metrics["srv1"]) = K + 1
  /\ Len(metrics["srv2"]) = 1
  /\ emitted.last = Message("srv1", "server:metrics", NoStatus, NoAddr, K + 1)

\* No start request, stop request or provisioning task of s is in progress.
Quiescent(s) ==
  /\ startReq[s] = "idle"
  /\ stopReq[s] = "idle"
  /\ provision[s].pc \in {"none", "aborted", "done", "failed"}

\* C29: whenever no start, stop or provisioning operation of a server is
\* in progress, the server has a live collector timer exactly when its
\* stored status is running.
C29_CollectorIffRunning ==
  \A s \in DOMAIN server :
    Quiescent(s) => (TimersOf(liveTimers, s) # {} <=> server[s].status = "running")

\* C30: a server whose stored status is running has an address other than
\* the placeholder it was created with.
C30_RunningHasAddress ==
  \A s \in DOMAIN server :
    server[s].status = "running" => server[s].ipAddress # Placeholder

====
